---------------------------- MODULE Spec2Model ----------------------------
(***************************************************************************)
(* A model of the text layout and pagination core vendored in this         *)
(* repository: @react-pdf/textkit (lib/textkit.js) and the pagination      *)
(* steps of @react-pdf/layout (src/unnamed/part_001).                      *)
(*                                                                         *)
(* The components are pure functions over values; each is an operator      *)
(* computed the way the code computes it, and each has a specification     *)
(* whose initial states draw the inputs from bounded sets and whose        *)
(* actions apply the code's functions:                                     *)
(*   SpecBreak      linebreaker: Knuth-Plass passes, best fit, breakLines  *)
(*   SpecTolerance  linebreak called with several tolerances               *)
(*   SpecSplit      splitNodes on the children of a page                   *)
(*   SpecJustify    the justification engine on one line                   *)
(*   SpecString     slice of an attributed string, and the run concat      *)
(*   SpecFlatten    flatten, applied once and twice                        *)
(*   SpecOps        slice, trim, append, insertGlyph, dropLast in sequence *)
(*   SpecText       splitText on one text node                             *)
(*   SpecActive     one pass of linebreak, one group of active nodes a step*)
(*   SpecReorder    reorderLine on the runs of one line                    *)
(*   SpecTypeset    typesetter: paragraphs laid out in one container       *)
(*   SpecFonts      fontSubstitution on one attributed string              *)
(*   SpecRects      layoutParagraph: generateLineRects and layoutLines     *)
(*   SpecPaginate   resolvePagination: paginate, splitPage, page indices   *)
(*                                                                         *)
(* Numbers.  The code computes with IEEE doubles.  Widths are integers     *)
(* here; an adjustment ratio is an exact fraction [n, d]; badness is       *)
(* floor(100 * |ratio|^3), so demerits are integers.                       *)
(***************************************************************************)
EXTENDS Integers, Sequences, FiniteSets, TLC

VARIABLES
    \* ---- linebreaker (textkit.js 2408-2429)
    syllables,        \* attributedString.syllables
    align,            \* getAttributes(attributedString).align
    availableWidths,  \* availableWidths
    optTolerance,     \* options.tolerance (0 when not given)
    tolerance,        \* let tolerance
    nodes,            \* const nodes = getNodes(...)
    breaks,           \* let breaks
    passes,           \* the Knuth-Plass calls made so far: [tolerance, breaks]
    lines,            \* the returned lines: [string, start, end, hyphen]
    usedBestFit,      \* whether applyBestFit supplied the breaks
    pc,               \* position in the running function
    \* ---- linebreak, one pass node by node (textkit.js 1996-2140)
    kpIndex,          \* the index of nodes.forEach
    kpActive,         \* activeNodes, head first
    kpSum,            \* sum
    kpPos,            \* mainLoop: the place of active in activeNodes, 0 outside
    \* ---- splitNodes (part_001 2556-2626)
    wrapArea,         \* splitPage: wrapArea, the height splitNodes receives
    pageArea,         \* splitPage: contentArea
    pageChildren,     \* splitPage: dynamicPage.children
    currentChilds,    \* splitPage: currentChilds
    nextChilds,       \* splitPage: nextChilds
    \* ---- justification (textkit.js 2622-2635)
    jOptions,         \* justification(options)
    jLine,            \* the line handed to the justification engine
    jOut,             \* the line it returns
    \* ---- slice and concat (textkit.js 341-348, 2195-2211)
    asString,         \* the attributed string s
    asCut,            \* the offsets <<i, j>>
    asParts,          \* slice(0, i, s), slice(i, j, s), slice(0, j, s), the join
    \* ---- flatten (textkit.js 1137-1141)
    fRuns,            \* the runs handed to flatten
    fOnce,            \* flatten(runs)
    fTwice,           \* flatten(flatten(runs))
    \* ---- layoutParagraph (textkit.js 630-714)
    lrContainer,      \* container
    lrParagraph,      \* the paragraph: [height, indent, lines]
    currentRect,      \* generateLineRects: let currentRect
    lineRects,        \* generateLineRects: const lineRects
    lrWidths,         \* layoutParagraph: availableWidths
    lrLines,          \* the boxes of the lines layoutLines returns
    \* ---- resolvePagination (part_001 2645-2750)
    root,             \* root.children
    pageIndex,        \* resolvePagination: the i of the for loop
    pageNumber,       \* resolvePagination: let pageNumber
    pages,            \* resolvePagination: let pages
    subpages,         \* paginate: const pages
    nextPage,         \* paginate: let nextPage, <<>> for null
    renders,          \* the calls of props.render so far
    resolvedPage,     \* const resolvedPage of resolveDynamicPage, <<>> before
    mapped            \* the pages the final pages.map has returned so far

breakVars == <<syllables, align, availableWidths, optTolerance, tolerance, nodes,
               breaks, passes, lines, usedBestFit>>

kpVars == <<kpIndex, kpActive, kpSum, kpPos>>

splitVars == <<wrapArea, pageArea, pageChildren, currentChilds, nextChilds>>

justVars == <<jOptions, jLine, jOut>>

stringVars == <<asString, asCut, asParts>>

flattenVars == <<fRuns, fOnce, fTwice>>

rectVars == <<lrContainer, lrParagraph, currentRect, lineRects, lrWidths, lrLines>>

pageVars == <<root, pageIndex, pageNumber, pages, subpages, nextPage, renders,
              resolvedPage, mapped>>

vars == <<breakVars, pc, kpVars, splitVars, justVars, stringVars, flattenVars,
         rectVars, pageVars>>

notBreakVars == <<kpVars, splitVars, justVars, stringVars, flattenVars,
                  rectVars, pageVars>>

notKpVars == <<splitVars, justVars, stringVars, flattenVars,
               rectVars, pageVars>>

notSplitVars == <<breakVars, kpVars, justVars, stringVars, flattenVars,
                  rectVars, pageVars>>

notJustVars == <<breakVars, kpVars, splitVars, stringVars, flattenVars,
                 rectVars, pageVars>>

notStringVars == <<breakVars, kpVars, splitVars, justVars, flattenVars,
                   rectVars, pageVars>>

notFlattenVars == <<breakVars, kpVars, splitVars, justVars, stringVars,
                    rectVars, pageVars>>

notRectVars == <<breakVars, kpVars, splitVars, justVars, stringVars, flattenVars,
                 pageVars>>

notPageVars == <<breakVars, kpVars, splitVars, justVars, stringVars, flattenVars,
                 rectVars>>

(***************************************************************************)
(* The values of a component's variables while another component runs      *)
(***************************************************************************)
KPIdle == kpIndex = 0 /\ kpActive = <<>> /\ kpSum = <<>> /\ kpPos = 0

BreakIdle ==
    /\ KPIdle
    /\ syllables = <<>>
    /\ align = "left"
    /\ availableWidths = <<>>
    /\ optTolerance = 0
    /\ tolerance = 0
    /\ nodes = <<>>
    /\ breaks = <<>>
    /\ passes = <<>>
    /\ lines = <<>>
    /\ usedBestFit = FALSE

SplitIdle ==
    /\ wrapArea = 0
    /\ pageArea = 0
    /\ pageChildren = <<>>
    /\ currentChilds = <<>>
    /\ nextChilds = <<>>

JustIdle == jOptions = <<>> /\ jLine = <<>> /\ jOut = <<>>

StringIdle == asString = <<>> /\ asCut = <<>> /\ asParts = <<>>

FlattenIdle == fRuns = <<>> /\ fOnce = <<>> /\ fTwice = <<>>

RectIdle ==
    /\ lrContainer = <<>>
    /\ lrParagraph = <<>>
    /\ currentRect = <<>>
    /\ lineRects = <<>>
    /\ lrWidths = <<>>
    /\ lrLines = <<>>

PageIdle ==
    /\ root = <<>>
    /\ pageIndex = 0
    /\ pageNumber = 0
    /\ pages = <<>>
    /\ subpages = <<>>
    /\ nextPage = <<>>
    /\ renders = <<>>
    /\ resolvedPage = <<>>
    /\ mapped = <<>>

(***************************************************************************)
(* Generic helpers                                                         *)
(***************************************************************************)
Min(a, b) == IF a <= b THEN a ELSE b

Max(a, b) == IF a >= b THEN a ELSE b

Abs(a) == IF a < 0 THEN 0 - a ELSE a

RECURSIVE SumSeq(_)
SumSeq(s) == IF s = <<>> THEN 0 ELSE Head(s) + SumSeq(Tail(s))

RECURSIVE Flat(_)
\* concatenation of a sequence of sequences (Array.prototype.flat, join(''))
Flat(ss) == IF ss = <<>> THEN <<>> ELSE Head(ss) \o Flat(Tail(ss))

\* s.slice(a, b) for 0 <= b, with zero-based offsets; a negative a counts from
\* the end
JsSlice(s, a, b) ==
    LET e == Min(b, Len(s))
        from == IF a < 0 THEN Max(Len(s) + a, 0) ELSE a
    IN IF from >= e THEN <<>> ELSE SubSeq(s, from + 1, e)

RECURSIVE SeqsUpTo(_, _)
\* all sequences over S of length 0..n
SeqsUpTo(S, n) ==
    IF n = 0 THEN {<<>>}
    ELSE LET shorter == SeqsUpTo(S, n - 1) IN
         shorter \cup {Append(s, x) : s \in {t \in shorter : Len(t) = n - 1}, x \in S}


(***************************************************************************)
(* Line breaker: node stream (textkit.js 2143-2163, 2363-2394)             *)
(***************************************************************************)
\* linebreak.infinity / INFINITY
INFINITY == 10000

HYPHEN == "-"

TOLERANCE_STEPS == 5

TOLERANCE_LIMIT == 50

\* opts = { width: 3, stretch: 6, shrink: 9 }
opts == [width |-> 3, stretch |-> 6, shrink |-> 9]

Glue(width, start, end, stretch, shrink) ==
    [type |-> "glue", width |-> width, start |-> start, end |-> end,
     stretch |-> stretch, shrink |-> shrink, penalty |-> 0, flagged |-> 0,
     hyphenated |-> FALSE]

Box(width, start, end, hyphenated) ==
    [type |-> "box", width |-> width, start |-> start, end |-> end,
     stretch |-> 0, shrink |-> 0, penalty |-> 0, flagged |-> 0,
     hyphenated |-> hyphenated]

Penalty(width, penalty, flagged) ==
    [type |-> "penalty", width |-> width, start |-> 0, end |-> 0,
     stretch |-> 0, shrink |-> 0, penalty |-> penalty, flagged |-> flagged,
     hyphenated |-> FALSE]

\* The shaped paragraph of the line breaker's specifications: one run, one
\* glyph per character; xAdvance is 6 for a space and 4 for any other
\* character (multiples that keep the glue's stretch and shrink integral).
XAdvance(c) == IF c = " " THEN 6 ELSE 4

RECURSIVE AdvanceOf(_)
AdvanceOf(str) == IF str = <<>> THEN 0 ELSE XAdvance(Head(str)) + AdvanceOf(Tail(str))

\* advanceWidthBetween(start, end, attributedString)
AdvanceWidthBetween(start, end, string) == AdvanceOf(JsSlice(string, start, end))

\* s.trim() === ''
IsBlank(s) == \A i \in 1..Len(s) : s[i] = " "

\* options.hyphenationPenalty || (align === 'justify' ? 100 : 600)
HyphenPenalty(alignment) == IF alignment = "justify" THEN 100 ELSE 600

RECURSIVE GetNodesFrom(_, _, _, _, _)
GetNodesFrom(syl, string, index, start, hyphenPenalty) ==
    IF index > Len(syl)
    THEN <<Glue(0, start, start, INFINITY, 0), Penalty(0, 0 - INFINITY, 1)>>
    ELSE LET s == syl[index]
             width == AdvanceWidthBetween(start, start + Len(s), string)
             end == start + Len(s)
             hasNext == index < Len(syl) /\ syl[index + 1] # <<>>
             hyphenated == ~(index < Len(syl) /\ syl[index + 1] = <<" ">>)
             here == IF IsBlank(s)
                     THEN <<Glue(width, start, end,
                                 (width * opts.width) \div opts.stretch,
                                 (width * opts.width) \div opts.shrink)>>
                     ELSE <<Box(width, start, end, hyphenated)>>
                          \o (IF hasNext /\ hyphenated
                              THEN <<Penalty(5, hyphenPenalty, 1)>>
                              ELSE <<>>)
         IN here \o GetNodesFrom(syl, string, index + 1, end, hyphenPenalty)

GetNodes(syl, alignment) ==
    GetNodesFrom(syl, Flat(syl), 1, 0, HyphenPenalty(alignment))

(***************************************************************************)
(* Knuth-Plass (textkit.js 1904-2141).  Node positions are zero-based as   *)
(* in the code: node p of the stream is ns[p + 1].  The active list is a   *)
(* sequence; a breakpoint's `previous` chain is kept as the sequence of    *)
(* the positions it leads through (path).                                  *)
(***************************************************************************)
Ratio(n, d) == [n |-> n, d |-> d]

\* ratio < k, ratio <= k for an integer k (d > 0)
RatioLt(r, k) == r.n < k * r.d

RatioLe(r, k) == r.n <= k * r.d

\* floor(100 * |ratio|^3); a ratio below 1/5 has badness below 1
Badness(r) ==
    IF 5 * Abs(r.n) < r.d THEN 0
    ELSE (100 * Abs(r.n) * Abs(r.n) * Abs(r.n)) \div (r.d * r.d * r.d)

Breakpoint(position, demerits, line, fitnessClass, totals, path) ==
    [position |-> position, demerits |-> demerits, line |-> line,
     fitnessClass |-> fitnessClass, totals |-> totals, path |-> path]

ZeroSum == [width |-> 0, stretch |-> 0, shrink |-> 0]

ComputeCost(ns, lineLengths, sum, end, active, currentLine) ==
    LET width == (sum.width - active.totals.width)
                 + (IF ns[end + 1].type = "penalty" THEN ns[end + 1].width ELSE 0)
        lineLength == IF currentLine < Len(lineLengths)
                      THEN lineLengths[currentLine]
                      ELSE lineLengths[Len(lineLengths)]
        stretch == sum.stretch - active.totals.stretch
        shrink == sum.shrink - active.totals.shrink
    IN IF width < lineLength
       THEN (IF stretch > 0 THEN Ratio(lineLength - width, stretch)
             ELSE Ratio(INFINITY, 1))
       ELSE IF width > lineLength
       THEN (IF shrink > 0 THEN Ratio(lineLength - width, shrink)
             ELSE Ratio(INFINITY, 1))
       ELSE Ratio(0, 1)

RECURSIVE ComputeSumFrom(_, _, _, _)
ComputeSumFrom(ns, result, i, breakPointIndex) ==
    IF i >= Len(ns) THEN result
    ELSE LET node == ns[i + 1] IN
         IF node.type = "glue"
         THEN ComputeSumFrom(ns,
                  [width |-> result.width + node.width,
                   stretch |-> result.stretch + node.stretch,
                   shrink |-> result.shrink + node.shrink],
                  i + 1, breakPointIndex)
         ELSE IF node.type = "box"
                 \/ (node.type = "penalty" /\ node.penalty = 0 - INFINITY
                     /\ i > breakPointIndex)
         THEN result
         ELSE ComputeSumFrom(ns, result, i + 1, breakPointIndex)

ComputeSum(ns, sum, breakPointIndex) ==
    ComputeSumFrom(ns, sum, breakPointIndex, breakPointIndex)

IsForced(node) == node.type = "penalty" /\ node.penalty = 0 - INFINITY

\* mutant: an active node is also deactivated as soon as a break from it is
\* recorded as a candidate
DeactivateOnCandidate(ratio, node, tol) ==
    RatioLt(ratio, -1) \/ IsForced(node) \/ (~RatioLt(ratio, -1) /\ RatioLe(ratio, tol))

\* ratio < -1 || (node.type === 'penalty' && node.penalty === -linebreak.infinity);
\* the test does not read the tolerance
Deactivate(ratio, node, tol) == RatioLt(ratio, -1) \/ IsForced(node)

\* ratio >= -1 && ratio <= options.tolerance
Feasible(ratio, tol) == ~RatioLt(ratio, -1) /\ RatioLe(ratio, tol)

FitnessClass(ratio) ==
    IF 2 * ratio.n < 0 - ratio.d THEN 0
    ELSE IF 2 * ratio.n <= ratio.d THEN 1
    ELSE IF RatioLe(ratio, 1) THEN 2
    ELSE 3

\* demerits: { line: 10, flagged: 100, fitness: 3000 }
Demerits(ns, node, ratio, active) ==
    LET badness == Badness(ratio)
        base == (10 + badness) * (10 + badness)
        pen == IF node.type = "penalty" /\ node.penalty >= 0
               THEN base + node.penalty * node.penalty
               ELSE IF node.type = "penalty" /\ node.penalty # 0 - INFINITY
               THEN base - node.penalty * node.penalty
               ELSE base
        flag == IF node.type = "penalty" /\ ns[active.position + 1].type = "penalty"
                THEN 100 * node.flagged * ns[active.position + 1].flagged
                ELSE 0
        fit == IF Abs(FitnessClass(ratio) - active.fitnessClass) > 1 THEN 3000 ELSE 0
    IN pen + flag + fit + active.demerits


\* mutant: the inner loop stops after one active node
GroupEndNext(list, i) == i + 1

RECURSIVE GroupEnd(_, _)
\* The inner loop that starts at list[i] visits list[i .. GroupEnd - 1]: it
\* stops at the first next node with line >= currentLine.
GroupEnd(list, i) ==
    IF i + 1 <= Len(list) /\ list[i + 1].line < list[i].line + 1
    THEN GroupEnd(list, i + 1)
    ELSE i + 1

\* Only store the best candidate for each fitness class: the first of the
\* visited nodes whose demerits are strictly below all earlier ones.
BestCandidate(js, dem) ==
    CHOOSE j \in js : \A k \in js : dem[j] < dem[k] \/ (dem[j] = dem[k] /\ j <= k)

RECURSIVE SelectSeq2(_, _, _)
\* the elements list[j], j in lo..Len(list) with j in keep, in order
SelectSeq2(list, j, keep) ==
    IF j > Len(list) THEN <<>>
    ELSE (IF j \in keep THEN <<list[j]>> ELSE <<>>) \o SelectSeq2(list, j + 1, keep)

\* the list after the inner loop: the nodes it kept, the candidates it
\* inserts (lines 2099-2119) and the nodes from the one it stopped at on, with
\* the place of that node
InsertBefore(kept, newNodes, rest) ==
    [activeNodes |-> kept \o newNodes \o rest,
     active |-> Len(kept) + Len(newNodes) + 1]

\* One pass of the outer while loop of mainLoop (lines 2017-2120) with active
\* at list[i]: the inner loop over the group, then the insertion of the
\* candidates before the node it stopped at.  Gives the list and the place of
\* that node in it (beyond the end for null).
InnerLoop(ns, lineLengths, sum, index, tol, list, i) ==
    LET node == ns[index + 1]
        k == GroupEnd(list, i)
        group == i..(k - 1)
        ratio == [j \in group |->
                     ComputeCost(ns, lineLengths, sum, index, list[j],
                                 list[j].line + 1)]
        removed == {j \in group : Deactivate(ratio[j], node, tol)}
        feasible == {j \in group : Feasible(ratio[j], tol)}
        dem == [j \in feasible |-> Demerits(ns, node, ratio[j], list[j])]
        tmpSum == ComputeSum(ns, sum, index)
        ofClass(c) == {j \in feasible : FitnessClass(ratio[j]) = c}
        newNode(c) ==
            IF ofClass(c) = {} THEN <<>>
            ELSE LET b == BestCandidate(ofClass(c), dem) IN
                 <<Breakpoint(index, dem[b], list[b].line + 1, c, tmpSum,
                              Append(list[b].path, index))>>
    IN InsertBefore(SelectSeq2(SubSeq(list, 1, k - 1), 1, (1..(k - 1)) \ removed),
                    newNode(0) \o newNode(1) \o newNode(2) \o newNode(3),
                    SubSeq(list, k, Len(list)))

RECURSIVE MainLoopFrom(_, _, _, _, _, _, _)
\* the outer while loop goes on from the node the inner loop stopped at
MainLoopOn(ns, lineLengths, sum, index, tol, st) ==
    MainLoopFrom(ns, lineLengths, sum, index, tol, st.activeNodes, st.active)

\* the outer while loop of mainLoop from active = list[i]
MainLoopFrom(ns, lineLengths, sum, index, tol, list, i) ==
    IF i > Len(list) THEN list
    ELSE MainLoopOn(ns, lineLengths, sum, index, tol,
                    InnerLoop(ns, lineLengths, sum, index, tol, list, i))

\* function mainLoop(node, index, nodes): the active list after the call
MainLoop(ns, lineLengths, sum, index, tol, activeNodes) ==
    MainLoopFrom(ns, lineLengths, sum, index, tol, activeNodes, 1)

\* One iteration of nodes.forEach((node, index, nodes) => ...) of linebreak
KPStep(ns, lineLengths, tol, st, index) ==
    LET node == ns[index + 1] IN
    IF node.type = "box"
    THEN [activeNodes |-> st.activeNodes,
          sum |-> [st.sum EXCEPT !.width = @ + node.width]]
    ELSE IF node.type = "glue"
    THEN [activeNodes |->
              IF index > 0 /\ ns[index].type = "box"
              THEN MainLoop(ns, lineLengths, st.sum, index, tol, st.activeNodes)
              ELSE st.activeNodes,
          sum |-> [width |-> st.sum.width + node.width,
                   stretch |-> st.sum.stretch + node.stretch,
                   shrink |-> st.sum.shrink + node.shrink]]
    ELSE IF node.penalty # INFINITY
    THEN [activeNodes |->
              MainLoop(ns, lineLengths, st.sum, index, tol, st.activeNodes),
          sum |-> st.sum]
    ELSE st

\* const activeNodes = new LinkedList(); activeNodes.push(breakpoint(0, 0, 0, 0, undefined, null))
KPInit == [activeNodes |-> <<Breakpoint(0, 0, 0, 0, ZeroSum, <<0>>)>>, sum |-> ZeroSum]

RECURSIVE KPRun(_, _, _, _, _)
KPRun(ns, lineLengths, tol, st, index) ==
    IF index >= Len(ns) THEN st
    ELSE KPRun(ns, lineLengths, tol, KPStep(ns, lineLengths, tol, st, index), index + 1)

FindBestBreakpoints(activeNodes) ==
    IF Len(activeNodes) = 0 THEN <<>>
    ELSE LET best == CHOOSE j \in 1..Len(activeNodes) :
                        \A k \in 1..Len(activeNodes) :
                            activeNodes[j].demerits < activeNodes[k].demerits
                            \/ (activeNodes[j].demerits = activeNodes[k].demerits /\ j <= k)
         IN activeNodes[best].path

\* tolerance: tolerance || 3
Linebreak(ns, lineLengths, tol) ==
    FindBestBreakpoints(
        KPRun(ns, lineLengths, IF tol = 0 THEN 3 ELSE tol, KPInit, 0).activeNodes)


(***************************************************************************)
(* Best fit (textkit.js 1684-1760).  null is NoPosition.  A badness is     *)
(* 100 * |ratio|^3 + penalty; it is kept exactly as [big, n, d, p], the    *)
(* value big * 100 * INFINITY^3 + 100 * (|n|/d)^3 + p (big = 1 when the    *)
(* ratio is INFINITY, and then n = 0; the initial Infinity has big = 2).   *)
(***************************************************************************)
NoPosition == 0 - 1

BfBadness(ratio, penalty) ==
    IF ratio = Ratio(INFINITY, 1)
    THEN [big |-> 1, n |-> 0, d |-> 1, p |-> penalty]
    ELSE [big |-> 0, n |-> Abs(ratio.n), d |-> ratio.d, p |-> penalty]

\* 100 * (n/d)^3 >= p, for n > 0
CubeGe(n, d, p) ==
    IF p <= 0 THEN TRUE
    ELSE IF 5 * n < d THEN FALSE
    ELSE 100 * n * n * n >= p * d * d * d

\* p >= 100 * (n/d)^3, for n > 0
CubeLe(n, d, p) ==
    IF p <= 0 THEN FALSE
    ELSE IF 5 * n < d THEN TRUE
    ELSE p * d * d * d >= 100 * n * n * n

\* a >= b.  A glue has penalty 0; a penalty node has ratio 0 or INFINITY.
BfGe(a, b) ==
    IF a.big # b.big THEN a.big > b.big
    ELSE IF a.n = 0 /\ b.n = 0 THEN a.p >= b.p
    ELSE IF a.n # 0 /\ b.n # 0 /\ a.p = b.p THEN a.n * b.d >= b.n * a.d
    ELSE IF b.n = 0 /\ a.p = 0 THEN CubeGe(a.n, a.d, b.p)
    ELSE IF a.n = 0 /\ b.p = 0 THEN CubeLe(b.n, b.d, a.p)
    ELSE a.p >= b.p

\* const calculateRatio = (node) => ... of getNextBreakpoint
CalculateRatio(node, sum, lineLength) ==
    IF sum.width < lineLength
    THEN (IF node.stretch = 0 THEN Ratio(INFINITY, 1)
          ELSE IF sum.stretch - node.stretch > 0
          THEN Ratio(lineLength - sum.width, sum.stretch)
          ELSE Ratio(INFINITY, 1))
    ELSE IF sum.width > lineLength
    THEN (IF node.shrink = 0 THEN Ratio(INFINITY, 1)
          ELSE IF sum.shrink - node.shrink > 0
          THEN Ratio(lineLength - sum.width, sum.shrink)
          ELSE Ratio(INFINITY, 1))
    ELSE Ratio(0, 1)

RECURSIVE SkipGlueAndPenalty(_, _)
\* while (j < subnodes.length && (glue || penalty)) j++
SkipGlueAndPenalty(subnodes, j) ==
    IF j < Len(subnodes) /\ subnodes[j + 1].type \in {"glue", "penalty"}
    THEN SkipGlueAndPenalty(subnodes, j + 1)
    ELSE j

RECURSIVE NextBreakpointFrom(_, _, _, _, _, _)
NextBreakpointFrom(subnodes, lineLength, i, sum0, position, minimumBadness) ==
    IF i >= Len(subnodes)
    THEN (IF sum0.width - sum0.shrink > lineLength THEN position ELSE NoPosition)
    ELSE LET node == subnodes[i + 1]
             sum == IF node.type = "box"
                    THEN [sum0 EXCEPT !.width = @ + node.width]
                    ELSE IF node.type = "glue"
                    THEN [width |-> sum0.width + node.width,
                          stretch |-> sum0.stretch + node.stretch,
                          shrink |-> sum0.shrink + node.shrink]
                    ELSE sum0
         IN IF sum.width - sum.shrink > lineLength
            THEN (IF position = NoPosition
                  THEN SkipGlueAndPenalty(subnodes, IF i = 0 THEN i + 1 ELSE i) - 1
                  ELSE position)
            ELSE IF node.type \in {"penalty", "glue"}
            THEN LET badness == BfBadness(CalculateRatio(node, sum, lineLength),
                                          IF node.type = "penalty" THEN node.penalty ELSE 0)
                 IN IF BfGe(minimumBadness, badness)
                    THEN NextBreakpointFrom(subnodes, lineLength, i + 1, sum, i, badness)
                    ELSE NextBreakpointFrom(subnodes, lineLength, i + 1, sum,
                                            position, minimumBadness)
            ELSE NextBreakpointFrom(subnodes, lineLength, i + 1, sum,
                                    position, minimumBadness)

GetNextBreakpoint(subnodes, widths, lineNumber) ==
    NextBreakpointFrom(subnodes, widths[Min(lineNumber, Len(widths) - 1) + 1], 0,
                       ZeroSum, NoPosition, [big |-> 2, n |-> 0, d |-> 1, p |-> 0])

RECURSIVE BestFitFrom(_, _, _, _, _)
BestFitFrom(subnodes, widths, count, lineNumber, breakpoints) ==
    IF Len(subnodes) = 0 THEN breakpoints
    ELSE LET breakpoint == GetNextBreakpoint(subnodes, widths, lineNumber) IN
         IF breakpoint # NoPosition
         THEN BestFitFrom(JsSlice(subnodes, breakpoint + 1, Len(subnodes)), widths,
                          count + breakpoint + 1, lineNumber + 1,
                          Append(breakpoints, count + breakpoint))
         ELSE breakpoints

ApplyBestFit(ns, widths) == BestFitFrom(ns, widths, 0, 0, <<0>>)

(***************************************************************************)
(* Attributed strings: slice and the run concat (textkit.js 130-348,       *)
(* 899-972, 2172-2211)                                                     *)
(*                                                                         *)
(* A string is a sequence of characters; offsets are zero-based as in the  *)
(* code.  A glyph is [codePoints, advanceWidth].  attributes.font is <<>>  *)
(* when the run has no font.  An undefined glyph is <<>>, a defined one    *)
(* <<glyph>>.                                                              *)
(***************************************************************************)
\* the end Infinity that slice$1 passes to slice$2
JsInfinity == 1000000

RECURSIVE FontLayout(_)
\* font.layout(string).glyphs for a font with the ligature "fi"
FontLayout(codePoints) ==
    IF codePoints = <<>> THEN <<>>
    ELSE IF Len(codePoints) >= 2 /\ codePoints[1] = "f" /\ codePoints[2] = "i"
    THEN <<[codePoints |-> <<"f", "i">>, advanceWidth |-> 4]>>
            \o FontLayout(SubSeq(codePoints, 3, Len(codePoints)))
    ELSE <<[codePoints |-> <<Head(codePoints)>>,
            advanceWidth |-> IF Head(codePoints) = "x" THEN 5 ELSE 3]>>
            \o FontLayout(Tail(codePoints))

RECURSIVE Resolve(_, _)
\* lines 908-917, acc being the indices of the glyphs before
Resolve(glyphs, acc) ==
    IF glyphs = <<>> THEN acc
    ELSE LET codePoints == Head(glyphs).codePoints
             index == IF acc = <<>> THEN 0 ELSE acc[Len(acc)] + 1
         IN Resolve(Tail(glyphs), acc \o [k \in 1..Len(codePoints) |-> index])

\* run.attributes?.scale || calculateScale(run)
Scale(run) == run.attributes.scale

\* lines 950-972, the positions being those of the glyphs
LayoutRun(string, run) ==
    IF run.attributes.font = <<>>
    THEN [run EXCEPT !.glyphs = <<>>, !.glyphIndices = <<>>, !.positions = <<>>]
    ELSE LET glyphs == FontLayout(JsSlice(string, run.start, run.end)) IN
         [run EXCEPT !.glyphs = glyphs,
                     !.glyphIndices = Resolve(glyphs, <<>>),
                     !.positions = [k \in 1..Len(glyphs) |->
                                       glyphs[k].advanceWidth * Scale(run)]]

\* lines 160-165
Offset(index, run) ==
    IF index >= Len(run.glyphIndices) THEN 0
    ELSE Cardinality({k \in 1..index : run.glyphIndices[k] = run.glyphIndices[index + 1]})

\* lines 172-174: <<>> for null
GetFont(run) == run.attributes.font

\* lines 187-200
Slice2(start, end, font, glyph) ==
    IF glyph = <<>> THEN <<>>
    ELSE IF start = end THEN <<>>
    ELSE IF start = 0 /\ end = Len(glyph[1].codePoints) THEN glyph
    ELSE IF font # <<>>
         THEN FontLayout(JsSlice(glyph[1].codePoints, start, end))
         ELSE glyph

\* lines 210-213
GlyphIndexAt(index, run) ==
    IF index < Len(run.glyphIndices) THEN run.glyphIndices[index + 1] ELSE index

\* mutant: the indices are kept as they are
KeepIndices(array) == array

\* lines 221-224
Normalize(array) == [k \in 1..Len(array) |-> array[k] - array[1]]

\* array[index], <<>> when undefined
At(array, index) == IF index < Len(array) THEN <<array[index + 1]>> ELSE <<>>

\* lines 234-269
Slice1(start, end, run) ==
    LET runScale == Scale(run)
        font == GetFont(run)
        startIndex == GlyphIndexAt(start, run)
        endIndex == GlyphIndexAt(end, run)
        startGlyph == At(run.glyphs, startIndex)
        endGlyph == At(run.glyphs, endIndex)
        startOffset == Offset(start, run)
        startGlyphs == IF startOffset > 0
                       THEN Slice2(startOffset, JsInfinity, font, startGlyph)
                       ELSE <<>>
        endOffset == Offset(end, run)
        endGlyphs == Slice2(0, endOffset, font, endGlyph)
        sliceStart == startIndex + Min(1, startOffset)
        glyphs == JsSlice(run.glyphs, sliceStart, endIndex)
        GlyphPosition(gs) == [k \in 1..Len(gs) |-> gs[k].advanceWidth * runScale]
        positions == JsSlice(run.positions, sliceStart, endIndex)
    IN [run EXCEPT !.start = run.start + start,
                   !.end = Min(run.end, run.start + end),
                   !.glyphIndices = Normalize(JsSlice(run.glyphIndices, start, end)),
                   !.glyphs = startGlyphs \o glyphs \o endGlyphs,
                   !.positions = GlyphPosition(startGlyphs) \o positions
                                    \o GlyphPosition(endGlyphs)]

RECURSIVE FindIndex(_, _, _)
\* runs.findIndex((run) => run.start <= index && index < run.end), from run k
FindIndex(index, runs, k) ==
    IF k >= Len(runs) THEN 0 - 1
    ELSE IF runs[k + 1].start <= index /\ index < runs[k + 1].end THEN k
    ELSE FindIndex(index, runs, k + 1)

\* lines 278-282
RunIndexAt(index, runs) == FindIndex(index, runs, 0)

\* array.slice(a, b), a negative offset a counting from the end
JsSliceFrom(array, a, b) ==
    JsSlice(array, IF a < 0 THEN Max(Len(array) + a, 0) ELSE a, Max(b, 0))

\* lines 292-296
Filter(start, end, runs) ==
    LET startIndex == RunIndexAt(start, runs)
        endIndex == Max(RunIndexAt(end - 1, runs), startIndex)
    IN JsSliceFrom(runs, startIndex, endIndex + 1)

\* lines 305-309
Subtract(index, run) == [run EXCEPT !.start = @ - index, !.end = @ - index]

\* lines 319-332
SliceRuns(start, end, runs) ==
    [i \in 1..Len(runs) |->
        LET isFirst == i = 1
            isLast == ~isFirst /\ i = Len(runs)
        IN Subtract(start,
                    IF isLast THEN Slice1(0, end - runs[i].start, runs[i])
                    ELSE IF isFirst
                    THEN Slice1(start - runs[i].start, end - runs[i].start, runs[i])
                    ELSE runs[i])]

\* lines 341-348
Slice(start, end, attributedString) ==
    IF Len(attributedString.string) = 0 THEN attributedString
    ELSE [attributedString EXCEPT
             !.string = JsSlice(attributedString.string, start, end),
             !.runs = SliceRuns(start, end, Filter(start, end, attributedString.runs))]

\* lines 2172-2176
Add(index, run) == [run EXCEPT !.start = @ + index, !.end = @ + index]

\* lines 2184-2186
Length(run) == run.end - run.start

\* lines 2195-2211; Object.assign({}, runA.attributes, runB.attributes) over
\* the keys font, scale and color that every run has is runB.attributes
Concat(runA, runB) ==
    LET runAIndices == runA.glyphIndices
        runALastIndex == IF runAIndices = <<>> THEN 0 ELSE runAIndices[Len(runAIndices)]
        runBIndices == [k \in 1..Len(runB.glyphIndices) |->
                           runB.glyphIndices[k] + runALastIndex + 1]
    IN [runA EXCEPT !.end = runA.end + Length(runB),
                    !.glyphs = runA.glyphs \o runB.glyphs,
                    !.positions = runA.positions \o runB.positions,
                    !.attributes = runB.attributes,
                    !.glyphIndices = Normalize(runAIndices \o runBIndices)]

(***************************************************************************)
(* Attributed strings: fromFragments, generateGlyphs, trim, append,        *)
(* insertGlyph and dropLast (textkit.js 13-28, 363-367, 400-480,           *)
(* 1330-1344, 2221-2279, 981-986)                                          *)
(*                                                                         *)
(* A code point is the character it stands for.  A value handed to append  *)
(* is a code point or a glyph: [isNumber, codePoint] or [isNumber, glyph]. *)
(***************************************************************************)
RECURSIVE FromFragmentsFrom(_, _, _, _)
\* lines 13-28, the forEach from fragment k + 1 on
FromFragmentsFrom(fragments, k, string, runs) ==
    IF k >= Len(fragments) THEN [string |-> string, runs |-> runs]
    ELSE LET fragment == fragments[k + 1] IN
         FromFragmentsFrom(fragments, k + 1, string \o fragment.string,
             Append(runs, [start |-> Len(string),
                           end |-> Len(string) + Len(fragment.string),
                           attributes |-> fragment.attributes,
                           glyphs |-> <<>>, glyphIndices |-> <<>>, positions |-> <<>>]))

\* lines 13-28
FromFragments(fragments) == FromFragmentsFrom(fragments, 0, <<>>, <<>>)

\* lines 981-986
GenerateGlyphs(attributedString) ==
    [attributedString EXCEPT
        !.runs = [k \in 1..Len(@) |-> LayoutRun(attributedString.string, @[k])]]

\* lines 350-352: string.search(/\S/g), -1 when there is none
FindCharIndex(string) ==
    IF \A k \in 1..Len(string) : string[k] = " " THEN 0 - 1
    ELSE (CHOOSE k \in 1..Len(string) :
             string[k] # " " /\ \A m \in 1..(k - 1) : string[m] = " ") - 1

\* lines 353-356: the last offset of the last non-blank character
FindLastCharIndex(string) ==
    IF \A k \in 1..Len(string) : string[k] = " " THEN 0 - 1
    ELSE (CHOOSE k \in 1..Len(string) :
             string[k] # " " /\ \A m \in (k + 1)..Len(string) : string[m] = " ") - 1

\* lines 363-367
Trim(attributedString) ==
    Slice(FindCharIndex(attributedString.string),
          FindLastCharIndex(attributedString.string) + 1, attributedString)

\* lines 374-383; calculateScale of a run without attributes taken as 1
EmptyRun ==
    [start |-> 0, end |-> 0, glyphIndices |-> <<>>, glyphs |-> <<>>, positions |-> <<>>,
     attributes |-> [font |-> <<>>, scale |-> 1, color |-> 0]]

\* lines 405-410
AppendIndices(length, indices) ==
    LET value == IF indices = <<>> THEN 0 ELSE indices[Len(indices)] + 1
    IN indices \o [k \in 1..length |-> value]

\* lines 419-423, for a code point other than 0: <<>> for null
FromCodePoint(value, font) ==
    IF font = <<>> THEN <<>> ELSE <<FontLayout(<<value>>)[1]>>

\* lines 432-445
AppendGlyph(glyph, run) ==
    LET glyphLength == Len(glyph.codePoints) IN
    [run EXCEPT !.end = @ + glyphLength,
                !.glyphs = @ \o <<glyph>>,
                !.glyphIndices = AppendIndices(glyphLength, @),
                !.positions = @ \o <<glyph.advanceWidth * Scale(run)>>]

\* the glyph append$1 and insert hand on: <<>> for null
GlyphOf(value, run) ==
    IF value.isNumber THEN FromCodePoint(value.codePoint, GetFont(run))
    ELSE <<value.glyph>>

\* lines 453-459: appendGlyph reads glyph.codePoints of a null glyph
Append1Throws(value, run) == GlyphOf(value, run) = <<>>

\* lines 453-459, when it does not throw
Append1(value, run) == AppendGlyph(GlyphOf(value, run)[1], run)

\* the code points append adds to the string
CodePointsOf(value) ==
    IF value.isNumber THEN <<value.codePoint>> ELSE value.glyph.codePoints

\* the run append extends
LastRun(attributedString) ==
    IF attributedString.runs = <<>> THEN EmptyRun
    ELSE attributedString.runs[Len(attributedString.runs)]

\* lines 478-486 (append), when append$1 does not throw
AppendString(value, attributedString) ==
    LET firstRuns == JsSlice(attributedString.runs, 0, Len(attributedString.runs) - 1)
    IN [attributedString EXCEPT
           !.string = @ \o CodePointsOf(value),
           !.runs = firstRuns \o <<Append1(value, LastRun(attributedString))>>]

\* lines 1330-1332; a run of length 0 keeps its empty glyph arrays and gets
\* the end Math.min(run.end, run.start - 1)
DropLast1(run) ==
    IF run.end = run.start
    THEN [run EXCEPT !.end = run.start - 1,
                     !.glyphs = <<>>, !.glyphIndices = <<>>, !.positions = <<>>]
    ELSE Slice1(0, run.end - run.start - 1, run)

\* lines 1340-1344
DropLast(attributedString) ==
    LET n == Len(attributedString.runs) IN
    [attributedString EXCEPT
        !.string = JsSlice(@, 0, Len(@) - 1),
        !.runs = [k \in 1..n |-> IF k = n THEN DropLast1(@[k]) ELSE @[k]]]

\* lines 2221-2228
InsertGlyph1(index, glyph, run) ==
    IF glyph = <<>> THEN run
    ELSE LET leadingRun == Slice1(0, index, run)
             trailingRun == Slice1(index, JsInfinity, run)
         IN Concat(AppendGlyph(glyph[1], leadingRun), trailingRun)

\* lines 2237-2241
Insert(index, value, run) == InsertGlyph1(index, GlyphOf(value, run), run)

\* lines 2262-2279, the glyph being a code point, when append does not throw
InsertGlyph(index, glyph, attributedString) ==
    LET runIndex == RunIndexAt(index, attributedString.runs)
        value == [isNumber |-> TRUE, codePoint |-> glyph]
    IN IF runIndex = 0 - 1 THEN AppendString(value, attributedString)
       ELSE [attributedString EXCEPT
                !.string = JsSlice(@, 0, index) \o <<glyph>> \o JsSlice(@, index, Len(@)),
                !.runs = [k \in 1..Len(@) |->
                             IF k - 1 = runIndex
                             THEN Insert(index - @[k].start, value, @[k])
                             ELSE IF k - 1 > runIndex THEN Add(1, @[k])
                             ELSE @[k]]]

\* insertGlyph reaches append$1 with a run that has no font
InsertGlyphThrows(index, glyph, attributedString) ==
    /\ RunIndexAt(index, attributedString.runs) = 0 - 1
    /\ Append1Throws([isNumber |-> TRUE, codePoint |-> glyph], LastRun(attributedString))

(***************************************************************************)
(* breakLines (textkit.js 2328-2354).  A line is the slice's string, the   *)
(* offsets [start, end) it was cut at, and whether insertGlyph appended a  *)
(* hyphen to it; the string of an attributed string is a sequence of       *)
(* one-character strings.                                                  *)
(***************************************************************************)
\* mutant: the slice starts one character late
SliceStringLate(start, end, string) ==
    IF Len(string) = 0 THEN string ELSE JsSlice(string, start + 1, end)

\* slice(start, end, attributedString).string
SliceString(start, end, string) ==
    IF Len(string) = 0 THEN string ELSE JsSlice(string, start, end)

\* mutant: no glyph is inserted
InsertNothing(string) == string

\* the line slice cuts out of a paragraph laid out in one run with a font
LineOf(string) ==
    GenerateGlyphs(FromFragments(
        <<[string |-> string,
           attributes |-> [font |-> <<"liga">>, scale |-> 1, color |-> 0]]>>))

\* insertGlyph(line.string.length, HYPHEN, line).string
InsertHyphen(string) == InsertGlyph(Len(string), HYPHEN, LineOf(string)).string

Line(string, start, end, hyphen) ==
    [string |-> string, start |-> start, end |-> end, hyphen |-> hyphen]

RECURSIVE BreakLinesFrom(_, _, _, _, _)
BreakLinesFrom(string, ns, brks, k, start) ==
    IF k > Len(brks)
    THEN <<Line(SliceString(start, Len(string), string), start, Len(string), FALSE)>>
    ELSE LET breakPoint == brks[k]
             node == ns[breakPoint + 1]
         IN IF breakPoint = Len(ns) - 1
            THEN BreakLinesFrom(string, ns, brks, k + 1, start)
            ELSE IF node.type = "penalty"
            THEN LET end == ns[breakPoint].end IN
                 <<Line(InsertHyphen(SliceString(start, end, string)), start, end, TRUE)>>
                 \o BreakLinesFrom(string, ns, brks, k + 1, end)
            ELSE LET end == node.end IN
                 <<Line(SliceString(start, end, string), start, end, FALSE)>>
                 \o BreakLinesFrom(string, ns, brks, k + 1, end)

\* mutant: the last line is not pushed
BreakLinesNoLast(string, ns, brks) ==
    LET all == BreakLinesFrom(string, ns, brks, 1, 0) IN SubSeq(all, 1, Len(all) - 1)

BreakLines(string, ns, brks) == BreakLinesFrom(string, ns, brks, 1, 0)


(***************************************************************************)
(* linebreaker (textkit.js 2408-2429) as a state machine: the first        *)
(* Knuth-Plass pass, each further pass of the while loop, and the exit     *)
(* (best fit when needed, then breakLines).                                *)
(***************************************************************************)
MaxSyllables == 5

\* hyphenation parts of words ("a", "bc") and runs of spaces
Syllable == {<<"a">>, <<"b", "c">>, <<" ">>, <<" ", " ">>}

Paragraphs == SeqsUpTo(Syllable, MaxSyllables)

\* available widths: zero, narrower than a word, exact fits ("a-" is 9 wide,
\* "a a" 14), loose lines, and lists whose last entry is reused
WidthLists == {<<0>>, <<14>>, <<27>>, <<9, 30>>, <<27, 0>>}

\* [options.tolerance, align]
LayoutOptions == {<<0, "left">>, <<1, "justify">>}

BreakInit ==
    /\ syllables \in Paragraphs
    /\ availableWidths \in WidthLists
    /\ \E o \in LayoutOptions : optTolerance = o[1] /\ align = o[2]
    /\ tolerance = 0
    /\ nodes = <<>>
    /\ breaks = <<>>
    /\ passes = <<>>
    /\ lines = <<>>
    /\ usedBestFit = FALSE
    /\ pc = "linebreaker"
    /\ KPIdle /\ SplitIdle /\ JustIdle /\ StringIdle /\ FlattenIdle /\ RectIdle /\ PageIdle

Pass(tol, brks) == [tolerance |-> tol, breaks |-> brks]

\* lines 2415-2418
LinebreakerStart ==
    /\ pc = "linebreaker"
    /\ LET tol == IF optTolerance = 0 THEN 4 ELSE optTolerance
           ns == GetNodes(syllables, align)
           brks == Linebreak(ns, availableWidths, tol)
       IN /\ tolerance' = tol
          /\ nodes' = ns
          /\ breaks' = brks
          /\ passes' = <<Pass(tol, brks)>>
    /\ pc' = "retry"
    /\ UNCHANGED <<syllables, align, availableWidths, optTolerance, lines, usedBestFit>>
    /\ UNCHANGED notBreakVars

\* while (breaks.length === 0 && tolerance < TOLERANCE_LIMIT)
ShouldRetry == Len(breaks) = 0 /\ tolerance < TOLERANCE_LIMIT

\* lines 2420-2423
LinebreakerRetry ==
    /\ pc = "retry"
    /\ ShouldRetry
    /\ LET tol == tolerance + TOLERANCE_STEPS
           brks == Linebreak(nodes, availableWidths, tol)
       IN /\ tolerance' = tol
          /\ breaks' = brks
          /\ passes' = Append(passes, Pass(tol, brks))
    /\ UNCHANGED <<syllables, align, availableWidths, optTolerance, nodes, lines,
                   usedBestFit, pc>>
    /\ UNCHANGED notBreakVars

\* breaks.length === 0 || (breaks.length === 1 && breaks[0] === 0)
NeedsBestFit(brks) == Len(brks) = 0 \/ (Len(brks) = 1 /\ brks[1] = 0)

\* lines 2424-2427
LinebreakerFinish ==
    /\ pc = "retry"
    /\ ~ShouldRetry
    /\ LET brks == IF NeedsBestFit(breaks)
                   THEN ApplyBestFit(nodes, availableWidths)
                   ELSE breaks
       IN /\ breaks' = brks
          /\ usedBestFit' = NeedsBestFit(breaks)
          /\ lines' = BreakLines(Flat(syllables), nodes, Tail(brks))
    /\ pc' = "done"
    /\ UNCHANGED <<syllables, align, availableWidths, optTolerance, tolerance,
                   nodes, passes>>
    /\ UNCHANGED notBreakVars

BreakNext == LinebreakerStart \/ LinebreakerRetry \/ LinebreakerFinish

SpecBreak == BreakInit /\ [][BreakNext]_vars


(***************************************************************************)
(* linebreak (textkit.js 1996-2141) called on one node stream with         *)
(* increasing tolerances.                                                  *)
(***************************************************************************)
Tolerances == {1, 4, 9}

ToleranceInit ==
    /\ syllables \in Paragraphs
    /\ availableWidths \in WidthLists
    /\ align \in {"left", "justify"}
    /\ optTolerance = 0
    /\ tolerance = 0
    /\ nodes = GetNodes(syllables, align)
    /\ breaks = <<>>
    /\ passes = <<>>
    /\ lines = <<>>
    /\ usedBestFit = FALSE
    /\ pc = "linebreak"
    /\ KPIdle /\ SplitIdle /\ JustIdle /\ StringIdle /\ FlattenIdle /\ RectIdle /\ PageIdle

LinebreakCall(t) ==
    /\ pc = "linebreak"
    /\ Len(passes) < 2
    /\ passes # <<>> => t > passes[Len(passes)].tolerance
    /\ LET brks == Linebreak(nodes, availableWidths, t) IN
          /\ tolerance' = t
          /\ breaks' = brks
          /\ passes' = Append(passes, Pass(t, brks))
    /\ UNCHANGED <<syllables, align, availableWidths, optTolerance, nodes, lines,
                   usedBestFit, pc>>
    /\ UNCHANGED notBreakVars

ToleranceNext == \E t \in Tolerances : LinebreakCall(t)

SpecTolerance == ToleranceInit /\ [][ToleranceNext]_vars

(***************************************************************************)
(* Properties of the line breaker                                          *)
(***************************************************************************)
\* the line's string without the hyphen insertGlyph appended
Unhyphenated(l) ==
    IF l.hyphen THEN SubSeq(l.string, 1, Len(l.string) - 1) ELSE l.string

\* C1: the returned lines, concatenated in order after removing the hyphen
\* inserted at each hyphenation break, equal the paragraph string, and
\* consecutive lines cover adjacent ranges [start, end) from 0 to the length.
C1_LinesCoverParagraph ==
    pc = "done" =>
        /\ Flat([i \in 1..Len(lines) |-> Unhyphenated(lines[i])]) = Flat(syllables)
        /\ Len(lines) >= 1
        /\ lines[1].start = 0
        /\ lines[Len(lines)].end = Len(Flat(syllables))
        /\ \A i \in 1..Len(lines) :
              /\ lines[i].start <= lines[i].end
              /\ i < Len(lines) => lines[i + 1].start = lines[i].end
              /\ lines[i].hyphen => lines[i].string[Len(lines[i].string)] = HYPHEN

\* a Knuth-Plass result with a hyphenated line and a following line
C1_Witness ==
    /\ pc = "done"
    /\ ~usedBestFit
    /\ Len(lines) >= 2
    /\ lines[1].hyphen

\* a best-fit result with several lines, one of them hyphenated
C1_WitnessBestFit ==
    /\ pc = "done"
    /\ usedBestFit
    /\ Len(lines) >= 3
    /\ \E i \in 1..Len(lines) : lines[i].hyphen

\* breaks.slice(1) holds no break but the final forced penalty
NoInteriorBreak == \A k \in 2..Len(breaks) : breaks[k] = Len(nodes) - 1

C10_WitnessAdds ==
    /\ Len(passes) = 2
    /\ passes[1].breaks = <<>>
    /\ passes[2].breaks # <<>>


(***************************************************************************)
(* Pagination (src/unnamed/part_001)                                       *)
(*                                                                         *)
(* A node is a record.  id stands for the identity of the object.          *)
(* props.fixed is "absent" when the key is not in props, else "true" or    *)
(* "false"; props.wrap TRUE also stands for an absent key, and so do       *)
(* props.break FALSE and 0 for minPresenceAhead, orphans and widows.       *)
(* style.height is <<>> when nil and <<h>> otherwise.  lines holds the     *)
(* box.height of each line.  Lengths are whole points, for which           *)
(* height + SAFETY_THRESHOLD < x is height < x.                            *)
(***************************************************************************)
\* lines 1050-1054
IsFixed(node) == node.props.fixed = "true"

\* 'fixed' in node.props
HasFixedKey(node) == node.props.fixed # "absent"

RECURSIVE LineIndexFrom(_, _, _, _)
\* the loop of lineIndexAtHeight from line i with y accumulated
LineIndexFrom(lns, h, i, y) ==
    IF i >= Len(lns) THEN Len(lns)
    ELSE IF y + lns[i + 1] > h THEN i
    ELSE LineIndexFrom(lns, h, i + 1, y + lns[i + 1])

\* mutant: a line that ends exactly at the height does not fit
LineIndexAtHeightStrict(node, h) == LineIndexFrom(node.lines, h - 1, 0, 0)

\* lines 1062-1073
LineIndexAtHeight(node, h) == LineIndexFrom(node.lines, h, 0, 0)

\* lines 1081-1092
HeightAtLineIndex(node, index) ==
    SumSeq(SubSeq(node.lines, 1, Min(index, Len(node.lines))))

\* mutant: the break is not moved back for the widows
GetLineBreakNoWidows(node, h) ==
    LET orphans == IF node.props.orphans = 0 THEN 2 ELSE node.props.orphans
        linesQuantity == Len(node.lines)
        slicedLine == LineIndexAtHeight(node, h - node.box.top)
    IN IF slicedLine = 0 THEN 0
       ELSE IF linesQuantity < orphans THEN linesQuantity
       ELSE IF slicedLine < orphans THEN 0
       ELSE slicedLine

\* lines 1094-1116
GetLineBreak(node, h) ==
    LET top == node.box.top
        widows == IF node.props.widows = 0 THEN 2 ELSE node.props.widows
        orphans == IF node.props.orphans = 0 THEN 2 ELSE node.props.orphans
        linesQuantity == Len(node.lines)
        slicedLine == LineIndexAtHeight(node, h - top)
    IN IF slicedLine = 0 THEN 0
       ELSE IF linesQuantity < orphans THEN linesQuantity
       ELSE IF slicedLine < orphans \/ linesQuantity < orphans + widows THEN 0
       ELSE IF linesQuantity = orphans + widows THEN orphans
       ELSE IF linesQuantity - slicedLine < widows THEN linesQuantity - widows
       ELSE slicedLine

\* lines 1118-1156: <<current, next>>
SplitText(node, h) ==
    LET slicedLineIndex == GetLineBreak(node, h)
        currentHeight == HeightAtLineIndex(node, slicedLineIndex)
        nextHeight == node.box.height - currentHeight
    IN << [node EXCEPT !.box.height = currentHeight,
                       !.lines = JsSlice(node.lines, 0, slicedLineIndex)],
          [node EXCEPT !.box.top = 0,
                       !.box.height = nextHeight,
                       !.lines = JsSlice(node.lines, slicedLineIndex, Len(node.lines))] >>

\* !isNil(node.style?.height)
HasFixedHeight(node) == node.style.height # <<>>

\* mutant: the next fragment keeps the style height of the node
SplitNodeKeepsHeight(node, h) ==
    << [node EXCEPT !.style.height = <<h - node.box.top>>],
       [node EXCEPT !.box.top = 0] >>

\* lines 1160-1201: <<current, next>>; if (nextHeight) is false for null and 0
SplitNode(node, h) ==
    LET nodeTop == node.box.top
        nextHeight == IF HasFixedHeight(node)
                      THEN <<node.box.height - (h - nodeTop)>>
                      ELSE <<>>
    IN << [node EXCEPT !.style.height = <<h - nodeTop>>],
          [node EXCEPT !.box.top = 0,
                       !.style.height = IF nextHeight # <<>> /\ nextHeight[1] # 0
                                        THEN nextHeight ELSE @] >>

\* P.Svg, P.Note, P.Image, P.Canvas
NON_WRAP_TYPES == {"SVG", "NOTE", "IMAGE", "CANVAS"}

\* lines 1204-1210
GetWrap(node) == IF node.type \in NON_WRAP_TYPES THEN FALSE ELSE node.props.wrap

GetBreak(node) == node.props.break

GetMinPresenceAhead(node) == node.props.minPresenceAhead

\* Math.max() of no argument
MinusInfinity == 0 - 1000000

RECURSIVE GetFurthestEnd(_)
\* line 1301
GetFurthestEnd(elements) ==
    IF elements = <<>> THEN MinusInfinity
    ELSE Max(Head(elements).box.top + Head(elements).box.height,
             GetFurthestEnd(Tail(elements)))

\* lines 1302-1307
GetEndOfMinPresenceAhead(child) ==
    child.box.top + child.box.height + child.box.marginBottom
        + GetMinPresenceAhead(child)

NoFixedKey(node) == ~HasFixedKey(node)

\* lines 1308-1312
GetEndOfPresence(child, futureElements) ==
    Min(GetEndOfMinPresenceAhead(child),
        GetFurthestEnd(SelectSeq(futureElements, NoFixedKey)))

\* lines 1313-1326
ShouldBreak(child, futureElements, h) ==
    IF HasFixedKey(child) THEN FALSE
    ELSE LET shouldSplit == h < child.box.top + child.box.height
             canWrap == GetWrap(child)
             endOfPresence == GetEndOfPresence(child, futureElements)
             breakingImprovesPresence == child.box.top > child.box.marginTop
         IN \/ GetBreak(child)
            \/ (shouldSplit /\ ~canWrap)
            \/ (~shouldSplit /\ endOfPresence > h /\ breakingImprovesPresence)

RECURSIVE SplitNodes(_, _, _)

\* lines 2627-2631
SplitChildren(h, contentArea, node) ==
    SplitNodes(h - node.box.top, contentArea, node.children)

\* lines 2632-2639
SplitView(node, h, contentArea) ==
    LET halves == SplitNode(node, h)
        kids == SplitChildren(h, contentArea, node)
    IN << [halves[1] EXCEPT !.children = kids[1]],
          [halves[2] EXCEPT !.children = kids[2]] >>

\* line 2640
Split(node, h, contentArea) ==
    IF node.type = "TEXT" THEN SplitText(node, h) ELSE SplitView(node, h, contentArea)

\* Object.assign({}, child, { box: { ...child.box, top: child.box.top - height } })
MoveUp(child, h) == [child EXCEPT !.box.top = @ - h]

\* mutant: the siblings after the next one
FutureNodesSkip(ns, i) == JsSlice(ns, i + 2, Len(ns))

\* nodes.slice(i + 1)
FutureNodes(ns, i) == JsSlice(ns, i + 1, Len(ns))

RECURSIVE SplitNodesFrom(_, _, _, _, _, _)
\* the loop of splitNodes from child i, lines 2559-2624
SplitNodesFrom(h, contentArea, ns, i, currentChildren, nextChildren) ==
    IF i >= Len(ns) THEN <<currentChildren, nextChildren>>
    ELSE
    LET child == ns[i + 1]
        futureNodes == FutureNodes(ns, i)
        futureFixedNodes == SelectSeq(futureNodes, IsFixed)
        nodeTop == child.box.top
        nodeHeight == child.box.height
        isOutside == h <= nodeTop
        shouldBreak == ShouldBreak(child, futureNodes, h)
        shouldSplit == h < nodeTop + nodeHeight
        canWrap == GetWrap(child)
        fitsInsidePage == nodeHeight <= contentArea
        halves == Split(child, h, contentArea)
    IN
    IF IsFixed(child)
    THEN SplitNodesFrom(h, contentArea, ns, i + 1,
                        Append(currentChildren, child), Append(nextChildren, child))
    ELSE IF isOutside
    THEN SplitNodesFrom(h, contentArea, ns, i + 1,
                        currentChildren, Append(nextChildren, MoveUp(child, h)))
    ELSE IF ~fitsInsidePage /\ ~canWrap
    THEN <<Append(currentChildren, child), nextChildren \o futureNodes>>
    ELSE IF shouldBreak
    THEN << currentChildren \o futureFixedNodes,
            nextChildren
              \o <<[MoveUp(child, h) EXCEPT !.props.wrap = TRUE, !.props.break = FALSE]>>
              \o futureNodes >>
    ELSE IF shouldSplit
    THEN IF Len(child.children) > 0 /\ Len(halves[1].children) = 0
         THEN IF Len(currentChildren) = 0
              THEN << currentChildren \o <<child>> \o futureFixedNodes,
                      nextChildren \o futureNodes >>
              ELSE << currentChildren \o futureFixedNodes,
                      nextChildren \o <<MoveUp(child, h)>> \o futureNodes >>
         ELSE SplitNodesFrom(h, contentArea, ns, i + 1,
                             Append(currentChildren, halves[1]),
                             Append(nextChildren, halves[2]))
    ELSE SplitNodesFrom(h, contentArea, ns, i + 1,
                        Append(currentChildren, child), nextChildren)

\* lines 2556-2626
SplitNodes(h, contentArea, ns) == SplitNodesFrom(h, contentArea, ns, 0, <<>>, <<>>)

(***************************************************************************)
(* Pages handed to splitNodes: children stacked from the top of the page,  *)
(* fixed ones placed at the top and taking no room.                        *)
(***************************************************************************)
Props(fixed, wrap, break, minPresenceAhead, orphans, widows) ==
    [fixed |-> fixed, wrap |-> wrap, break |-> break,
     minPresenceAhead |-> minPresenceAhead, orphans |-> orphans, widows |-> widows]

NoProps == Props("absent", TRUE, FALSE, 0, 0, 0)

\* a laid out node as createInstances and the layout steps leave it
Node(id, type, props, top, h, styleHeight, kids, lns) ==
    [id |-> id, type |-> type, props |-> props,
     box |-> [top |-> top, height |-> h, marginTop |-> 0, marginBottom |-> 0],
     style |-> [height |-> styleHeight], children |-> kids, lines |-> lns]

Kinds == {"text3", "text4", "text5", "view", "box", "figure", "image", "poster",
          "footer", "break", "ahead", "unfixed", "nowrap"}

\* the node of a kind, with identity id, at offset top
Shape(kind, id, top) ==
    CASE kind = "text3" -> Node(id, "TEXT", NoProps, top, 6, <<>>, <<>>, <<2, 2, 2>>)
      [] kind = "text4" -> Node(id, "TEXT", Props("absent", TRUE, FALSE, 0, 3, 1),
                                top, 8, <<>>, <<>>, <<2, 2, 2, 2>>)
      [] kind = "text5" -> Node(id, "TEXT", Props("absent", TRUE, FALSE, 0, 2, 2),
                                top, 10, <<>>, <<>>, <<2, 2, 2, 2, 2>>)
      [] kind = "view" -> Node(id, "VIEW", NoProps, top, 8, <<>>,
                               << Node(id + 1, "TEXT", NoProps, 0, 4, <<>>, <<>>, <<2, 2>>),
                                  Node(id + 2, "TEXT", NoProps, 4, 4, <<>>, <<>>, <<2, 2>>) >>,
                               <<>>)
      [] kind = "box" -> Node(id, "VIEW", NoProps, top, 10, <<10>>,
                              << Node(id + 1, "VIEW", Props("true", TRUE, FALSE, 0, 0, 0),
                                      0, 1, <<>>, <<>>, <<>>),
                                 Node(id + 2, "TEXT", NoProps, 0, 10, <<>>, <<>>,
                                      <<2, 2, 2, 2, 2>>) >>,
                              <<>>)
      [] kind = "figure" -> Node(id, "VIEW", NoProps, top, 4, <<>>,
                                 << Node(id + 1, "IMAGE", NoProps, 0, 4, <<>>, <<>>, <<>>) >>,
                                 <<>>)
      [] kind = "image" -> Node(id, "IMAGE", NoProps, top, 4, <<>>, <<>>, <<>>)
      [] kind = "poster" -> Node(id, "IMAGE", NoProps, top, 20, <<>>, <<>>, <<>>)
      [] kind = "footer" -> Node(id, "VIEW", Props("true", TRUE, FALSE, 0, 0, 0),
                                 0, 2, <<>>, <<>>, <<>>)
      [] kind = "break" -> Node(id, "VIEW", Props("absent", TRUE, TRUE, 0, 0, 0),
                                top, 2, <<>>, <<>>, <<>>)
      [] kind = "ahead" -> Node(id, "VIEW", Props("absent", TRUE, FALSE, 6, 0, 0),
                                top, 2, <<>>, <<>>, <<>>)
      [] kind = "unfixed" -> Node(id, "VIEW", Props("false", TRUE, FALSE, 0, 0, 0),
                                  top, 4, <<8>>, <<>>, <<>>)
      [] kind = "nowrap" -> Node(id, "VIEW", Props("absent", FALSE, FALSE, 0, 0, 0),
                                 top, 6, <<>>, <<>>, <<>>)

RECURSIVE Stack(_, _, _)
\* the children of a page for a list of kinds, child i at the running offset
Stack(kinds, i, top) ==
    IF i > Len(kinds) THEN <<>>
    ELSE LET node == Shape(kinds[i], 10 * i, top) IN
         <<node>> \o Stack(kinds, i + 1,
                           IF IsFixed(node) THEN top ELSE top + node.box.height)

MaxChildren == 3

\* page.style.height less the bottom padding, for pages without padding
PageHeights == {6, 7, 12}

SplitInit ==
    /\ wrapArea \in PageHeights
    /\ pageArea = wrapArea
    /\ \E kinds \in SeqsUpTo(Kinds, MaxChildren) : pageChildren = Stack(kinds, 1, 0)
    /\ currentChilds = <<>>
    /\ nextChilds = <<>>
    /\ pc = "splitNodes"
    /\ BreakIdle /\ JustIdle /\ StringIdle /\ FlattenIdle /\ RectIdle /\ PageIdle

\* line 2678
SplitNodesCall ==
    /\ pc = "splitNodes"
    /\ LET halves == SplitNodes(wrapArea, pageArea, pageChildren) IN
          /\ currentChilds' = halves[1]
          /\ nextChilds' = halves[2]
    /\ pc' = "split"
    /\ UNCHANGED <<wrapArea, pageArea, pageChildren>>
    /\ UNCHANGED notSplitVars

SplitNext == SplitNodesCall

SpecSplit == SplitInit /\ [][SplitNext]_vars

(***************************************************************************)
(* Properties of splitNodes                                                *)
(***************************************************************************)
\* the entries of a list that are the node with identity id, or a part of it
Of(list, id) == SelectSeq(list, LAMBDA n : n.id = id)

\* the node, moved or not, with all its lines, children and height
Whole(n, c) ==
    /\ n.lines = c.lines
    /\ n.children = c.children
    /\ n.box.height = c.box.height
    /\ n.type = c.type

RECURSIVE Conserved(_, _, _)
\* every non-fixed node of ns is whole in exactly one of the lists, or has one
\* fragment in each: the lines of a text divided between the two, the children
\* of a view divided the same way
Conserved(ns, current, next) ==
    \A k \in 1..Len(ns) :
        LET c == ns[k]
            a == Of(current, c.id)
            b == Of(next, c.id)
        IN ~IsFixed(c) =>
              /\ Len(a) <= 1
              /\ Len(b) <= 1
              /\ Len(a) + Len(b) >= 1
              /\ (Len(a) = 1 /\ Len(b) = 0) => a[1] = c
              /\ (Len(a) = 0 /\ Len(b) = 1) => Whole(b[1], c)
              /\ (Len(a) = 1 /\ Len(b) = 1) =>
                    /\ a[1].lines \o b[1].lines = c.lines
                    /\ Conserved(c.children, a[1].children, b[1].children)

\* a node that cannot wrap and is taller than the content area
Unwrappable(c) == ~IsFixed(c) /\ ~GetWrap(c) /\ c.box.height > pageArea

\* every sibling after child k is in the next list and, unless fixed, in no
\* other place
LaterSiblingsNext(k) ==
    \A m \in (k + 1)..Len(pageChildren) :
        /\ Len(Of(nextChilds, pageChildren[m].id)) = 1
        /\ Of(currentChilds, pageChildren[m].id) = <<>>

\* C2: splitNodes neither drops nor duplicates a non-fixed child: it is whole
\* in the current list, whole in the next list, or split with one fragment in
\* each.  A child that cannot wrap and is taller than the content area stays
\* whole on the current page and all its later siblings go to the next page.
C2_NothingDroppedOrDuplicated ==
    pc = "split" =>
        /\ Conserved(pageChildren, currentChilds, nextChilds)
        /\ \A k \in 1..Len(pageChildren) :
              (Unwrappable(pageChildren[k])
                 /\ Of(currentChilds, pageChildren[k].id) # <<>>)
                 => /\ Of(currentChilds, pageChildren[k].id) = <<pageChildren[k]>>
                    /\ Of(nextChilds, pageChildren[k].id) = <<>>
                    /\ LaterSiblingsNext(k)

\* one child whole on the current page, one split, one whole on the next page
C2_Witness ==
    /\ pc = "split"
    /\ Len(pageChildren) = 3
    /\ \A k \in 1..3 : ~IsFixed(pageChildren[k])
    /\ Of(currentChilds, 10) = <<pageChildren[1]>> /\ Of(nextChilds, 10) = <<>>
    /\ Len(Of(currentChilds, 20)) = 1 /\ Len(Of(nextChilds, 20)) = 1
    /\ Of(currentChilds, 30) = <<>> /\ Len(Of(nextChilds, 30)) = 1

\* an unwrappable child taller than the content area overflows the current
\* page after another child, and two siblings follow it
C2_WitnessOverflow ==
    /\ pc = "split"
    /\ Len(pageChildren) >= 3
    /\ Unwrappable(pageChildren[2])
    /\ Of(currentChilds, 20) = <<pageChildren[2]>>
    /\ ~IsFixed(pageChildren[1]) /\ ~IsFixed(pageChildren[3])

RECURSIVE HeightConserved(_, _, _)
\* for every node of ns with a fragment in each list: a text's fragments have
\* box heights that add up to its box height and lines that concatenate to its
\* lines; a view with a style height gets style heights that add up to its box
\* height; and the same holds among its children
HeightConserved(ns, current, next) ==
    \A k \in 1..Len(ns) :
        LET c == ns[k]
            a == Of(current, c.id)
            b == Of(next, c.id)
        IN (~IsFixed(c) /\ Len(a) = 1 /\ Len(b) = 1) =>
              /\ c.type = "TEXT" =>
                    /\ a[1].box.height + b[1].box.height = c.box.height
                    /\ a[1].lines \o b[1].lines = c.lines
              /\ (c.type # "TEXT" /\ HasFixedHeight(c)) =>
                    /\ HasFixedHeight(a[1]) /\ HasFixedHeight(b[1])
                    /\ a[1].style.height[1] + b[1].style.height[1] = c.box.height
              /\ c.type # "TEXT" =>
                    HeightConserved(c.children, a[1].children, b[1].children)

\* C3: splitting conserves height: the two fragments of a text have box heights
\* that sum to the text's box height and line lists that concatenate to its
\* line list; the style heights splitNode gives the two fragments of a view
\* with a fixed style height sum to the view's box height.
C3_SplitConservesHeight ==
    pc = "split" => HeightConserved(pageChildren, currentChilds, nextChilds)

\* a view with a style height is split, and so is a text inside it, with
\* lines on both sides
C3_Witness ==
    /\ pc = "split"
    /\ \E k \in 1..Len(pageChildren) :
          LET c == pageChildren[k]
              a == Of(currentChilds, c.id)
              b == Of(nextChilds, c.id)
          IN /\ c.type = "VIEW" /\ HasFixedHeight(c) /\ ~IsFixed(c)
             /\ Len(a) = 1 /\ Len(b) = 1
             /\ a[1].style.height[1] > 0 /\ b[1].style.height[1] > 0
             /\ \E t \in 1..Len(c.children) :
                   LET ta == Of(a[1].children, c.children[t].id)
                       tb == Of(b[1].children, c.children[t].id)
                   IN /\ c.children[t].type = "TEXT"
                      /\ Len(ta) = 1 /\ Len(tb) = 1
                      /\ ta[1].lines # <<>> /\ tb[1].lines # <<>>

\* a text of the page itself is split with lines on both sides
C3_WitnessText ==
    /\ pc = "split"
    /\ \E k \in 1..Len(pageChildren) :
          LET c == pageChildren[k]
              a == Of(currentChilds, c.id)
              b == Of(nextChilds, c.id)
          IN /\ c.type = "TEXT"
             /\ Len(a) = 1 /\ Len(b) = 1
             /\ a[1].lines # <<>> /\ b[1].lines # <<>>
             /\ c.box.top > 0

\* the first child is a text of 5 lines of one height with orphans = 2 and
\* widows = 2 at top 0, and the height has room for exactly 3 of its lines
FiveLinesRoomForThree ==
    /\ pc = "split"
    /\ pageChildren # <<>>
    /\ LET c == pageChildren[1] IN
          /\ c.type = "TEXT"
          /\ Len(c.lines) = 5
          /\ \A i \in 1..5 : c.lines[i] = c.lines[1]
          /\ c.props.orphans = 2 /\ c.props.widows = 2
          /\ c.box.top = 0
          /\ 3 * c.lines[1] <= wrapArea /\ wrapArea < 4 * c.lines[1]

\* C4 as stated: getLineBreak places the break at line index 2; lines 0..1
\* stay on the current page and lines 2..4 move to the next page.
C4_BreakAtLine2 ==
    FiveLinesRoomForThree =>
        /\ GetLineBreak(pageChildren[1], wrapArea) = 2
        /\ Len(Of(currentChilds, 10)[1].lines) = 2
        /\ Len(Of(nextChilds, 10)[1].lines) = 3

\* C4, amended: getLineBreak places the break at line index 3; lines 0..2 stay
\* on the current page and lines 3..4 move to the next page.
C4_BreakAtLine3 ==
    FiveLinesRoomForThree =>
        /\ GetLineBreak(pageChildren[1], wrapArea) = 3
        /\ Len(Of(currentChilds, 10)) = 1 /\ Len(Of(nextChilds, 10)) = 1
        /\ Of(currentChilds, 10)[1].lines = SubSeq(pageChildren[1].lines, 1, 3)
        /\ Of(nextChilds, 10)[1].lines = SubSeq(pageChildren[1].lines, 4, 5)

\* the text of 5 lines has been split by a height that ends inside its fourth
\* line
C4_Witness ==
    /\ FiveLinesRoomForThree
    /\ wrapArea > 3 * pageChildren[1].lines[1]
    /\ Len(Of(nextChilds, 10)) = 1

\* C5: every child with props.fixed === true is, unchanged, in both the
\* current list and the next list splitNodes returns, on every branch.
C5_FixedOnBothPages ==
    pc = "split" =>
        \A k \in 1..Len(pageChildren) :
            IsFixed(pageChildren[k]) =>
                /\ Of(currentChilds, pageChildren[k].id) = <<pageChildren[k]>>
                /\ Of(nextChilds, pageChildren[k].id) = <<pageChildren[k]>>


(***************************************************************************)
(* Justification (textkit.js 2430-2635)                                    *)
(*                                                                         *)
(* Lengths are whole multiples of 1/256 point, the unit in which the       *)
(* default factors are exact (0.5 is 128, 0.14453125 is 37, -0.04296875 is *)
(* -11).  The quotients of getDistances are exact fractions [n, d], and    *)
(* the advances of a justified line are fractions too.  An option that is  *)
(* not given is <<>>, a given one <<[before, after]>>.                     *)
(***************************************************************************)
WHITESPACE_PRIORITY == 1

LETTER_PRIORITY == 2

KASHIDA_PRIORITY == 0

NULL_PRIORITY == 3

WHITE_SPACES_CODE == 32

EXPAND_WHITESPACE_FACTOR ==
    [before |-> 128, after |-> 128, priority |-> WHITESPACE_PRIORITY,
     unconstrained |-> FALSE]

EXPAND_CHAR_FACTOR ==
    [before |-> 37, after |-> 37, priority |-> LETTER_PRIORITY, unconstrained |-> FALSE]

SHRINK_WHITESPACE_FACTOR ==
    [before |-> 0 - 11, after |-> 0 - 11, priority |-> WHITESPACE_PRIORITY,
     unconstrained |-> FALSE]

SHRINK_CHAR_FACTOR ==
    [before |-> 0 - 11, after |-> 0 - 11, priority |-> LETTER_PRIORITY,
     unconstrained |-> FALSE]

\* Object.assign({}, factor, option || {})
AssignFactor(base, option) ==
    IF option = <<>> THEN base
    ELSE [base EXCEPT !.before = option[1].before, !.after = option[1].after]

\* lines 2462-2468
GetCharFactor(direction, options) ==
    IF direction = "GROW"
    THEN AssignFactor(EXPAND_CHAR_FACTOR, options.expandCharFactor)
    ELSE AssignFactor(SHRINK_CHAR_FACTOR, options.shrinkCharFactor)

\* lines 2469-2475
GetWhitespaceFactor(direction, options) ==
    IF direction = "GROW"
    THEN AssignFactor(EXPAND_WHITESPACE_FACTOR, options.expandWhitespaceFactor)
    ELSE AssignFactor(SHRINK_WHITESPACE_FACTOR, options.shrinkWhitespaceFactor)

\* lines 1251-1254
IsWhiteSpace(glyph) == \E k \in 1..Len(glyph.codePoints) : glyph.codePoints[k] = WHITE_SPACES_CODE

RECURSIVE FactorFrom(_, _, _, _, _)
\* the loop of factor from the glyph at index (zero-based), lines 2480-2501
FactorFrom(glyphs, index, factors, charFactor, whitespaceFactor) ==
    IF index >= Len(glyphs) THEN factors
    ELSE LET glyph == glyphs[index + 1]
             pushed ==
                IF IsWhiteSpace(glyph)
                THEN IF index = Len(glyphs) - 1
                     THEN Append(IF index > 0 THEN [factors EXCEPT ![index].after = 0]
                                 ELSE factors,
                                 [whitespaceFactor EXCEPT !.before = 0])
                     ELSE Append(factors, whitespaceFactor)
                ELSE IF glyph.isMark /\ index > 0
                THEN Append([factors EXCEPT ![index].after = 0],
                            [factors[index] EXCEPT !.before = 0])
                ELSE Append(factors, charFactor)
         IN FactorFrom(glyphs, index + 1, pushed, charFactor, whitespaceFactor)

\* lines 2476-2503
Factor(direction, options, glyphs) ==
    FactorFrom(glyphs, 0, <<>>, GetCharFactor(direction, options),
               GetWhitespaceFactor(direction, options))

RECURSIVE RunFactors(_, _, _)
\* line.runs.reduce((acc, run) => acc.concat(getFactor(run.glyphs)), [])
RunFactors(runs, direction, options) ==
    IF runs = <<>> THEN <<>>
    ELSE Factor(direction, options, Head(runs).glyphs)
            \o RunFactors(Tail(runs), direction, options)

\* mutant: the first factor keeps its before weight and the last its after
GetFactorsKeepsEdges(gap, ln, options) ==
    RunFactors(ln.runs, IF gap > 0 THEN "GROW" ELSE "SHRINK", options)

\* lines 2504-2513
GetFactors(gap, ln, options) ==
    LET direction == IF gap > 0 THEN "GROW" ELSE "SHRINK"
        factors == RunFactors(ln.runs, direction, options)
    IN [factors EXCEPT ![1].before = 0, ![Len(factors)].after = 0]

\* the exact quotient n / d, with a positive denominator
Frac(n, d) == IF d < 0 THEN [n |-> 0 - n, d |-> 0 - d] ELSE [n |-> n, d |-> d]

Priorities == KASHIDA_PRIORITY..NULL_PRIORITY

RECURSIVE FactorSum(_, _, _)
\* the sum of before + after over the factors of a priority, all of them or
\* the unconstrained ones, lines 2525-2533
FactorSum(factors, priority, onlyUnconstrained) ==
    IF factors = <<>> THEN 0
    ELSE LET f == Head(factors) IN
         (IF f.priority = priority /\ (f.unconstrained \/ ~onlyUnconstrained)
          THEN f.before + f.after ELSE 0)
            + FactorSum(Tail(factors), priority, onlyUnconstrained)

RECURSIVE ChoosePriorities(_, _)
\* the loop that chooses the priorities to apply, lines 2539-2562; st.priority
\* is the value of the loop variable when the loop ends
ChoosePriorities(st, priority) ==
    IF priority > NULL_PRIORITY THEN [st EXCEPT !.priority = priority]
    ELSE
    LET prioritySum == st.priorities[priority].n
        seen == IF st.highestPriority = 0 - 1
                THEN [st EXCEPT !.highestPriority = priority,
                                !.highestPrioritySum = prioritySum]
                ELSE st
        used == [seen EXCEPT !.priorities[priority] = Frac(1, 1),
                             !.remainingGap = @ - prioritySum]
    IN
    IF prioritySum = 0 THEN ChoosePriorities(st, priority + 1)
    ELSE IF Abs(st.remainingGap) <= Abs(prioritySum)
    THEN [seen EXCEPT !.priorities[priority] = Frac(st.remainingGap, prioritySum),
                      !.unconstrained[priority] = Frac(0, 1),
                      !.remainingGap = 0,
                      !.priority = priority]
    ELSE IF st.unconstrained[priority].n # 0
    THEN [used EXCEPT !.unconstrained[priority] =
                          Frac(used.remainingGap, st.unconstrained[priority].n),
                      !.remainingGap = 0,
                      !.priority = priority]
    ELSE ChoosePriorities(used, priority + 1)

\* the product of the denominators of the quotients of a table
Denominator(table) ==
    table[0].d * table[1].d * table[2].d * table[3].d

\* lines 2517-2597: the distances as numerators n[index] over one denominator d
GetDistances(gap, factors) ==
    LET total == FactorSum(factors, 0, FALSE) + FactorSum(factors, 1, FALSE)
                    + FactorSum(factors, 2, FALSE) + FactorSum(factors, 3, FALSE)
        chosen == ChoosePriorities(
                      [priorities |-> [q \in Priorities |-> Frac(FactorSum(factors, q, FALSE), 1)],
                       unconstrained |-> [q \in Priorities |-> Frac(FactorSum(factors, q, TRUE), 1)],
                       highestPriority |-> 0 - 1,
                       highestPrioritySum |-> 0,
                       remainingGap |-> gap,
                       priority |-> KASHIDA_PRIORITY],
                      KASHIDA_PRIORITY)
        \* zero out remaining priorities
        zeroed == [chosen EXCEPT
                     !.priorities = [q \in Priorities |->
                                       IF q > chosen.priority THEN Frac(0, 1) ELSE @[q]],
                     !.unconstrained = [q \in Priorities |->
                                       IF q > chosen.priority THEN Frac(0, 1) ELSE @[q]]]
        \* space left over goes to the highest priority seen
        final == IF zeroed.remainingGap > 0 /\ zeroed.highestPriority > 0 - 1
                 THEN [zeroed EXCEPT !.priorities[zeroed.highestPriority] =
                          Frac(zeroed.highestPrioritySum + (gap - total),
                               zeroed.highestPrioritySum)]
                 ELSE zeroed
        d == Denominator(final.priorities) * Denominator(final.unconstrained)
        P(q) == final.priorities[q].n * (d \div final.priorities[q].d)
        U(q) == final.unconstrained[q].n * (d \div final.unconstrained[q].d)
        Dist(index) ==
            LET f == factors[index]
                hasNext == index < Len(factors)
                next == factors[Min(index + 1, Len(factors))]
            IN f.after * P(f.priority)
                 + (IF hasNext THEN next.before * P(next.priority) ELSE 0)
                 + (IF f.unconstrained
                    THEN f.after * U(f.priority)
                           + (IF hasNext THEN next.before * U(next.priority) ELSE 0)
                    ELSE 0)
    IN [d |-> d, n |-> [index \in 1..Len(factors) |-> Dist(index)]]

RECURSIVE AdvanceWidthRuns(_)
\* lines 1239-1242, over positions whose xAdvance is a whole number
AdvanceWidthRuns(runs) ==
    IF runs = <<>> THEN 0
    ELSE SumSeq(Head(runs).positions) + AdvanceWidthRuns(Tail(runs))

RECURSIVE JustifyRuns(_, _, _)
\* the loops of justifyLine: position.xAdvance += distances[index++]
JustifyRuns(runs, distances, index) ==
    IF runs = <<>> THEN <<>>
    ELSE LET run == Head(runs)
             moved == [k \in 1..Len(run.positions) |->
                          Frac(run.positions[k] * distances.d + distances.n[index + k],
                               distances.d)]
         IN <<[run EXCEPT !.positions = moved]>>
               \o JustifyRuns(Tail(runs), distances, index + Len(run.positions))

\* lines 2606-2614
JustifyLine(distances, ln) == [ln EXCEPT !.runs = JustifyRuns(ln.runs, distances, 0)]

\* the line as it is, its advances written as quotients
Unjustified(ln) ==
    [ln EXCEPT !.runs =
        [r \in 1..Len(ln.runs) |->
            [ln.runs[r] EXCEPT !.positions =
                [k \in 1..Len(ln.runs[r].positions) |-> Frac(ln.runs[r].positions[k], 1)]]]]

\* lines 2622-2635
Justification(options, ln) ==
    LET gap == ln.box.width - AdvanceWidthRuns(ln.runs) IN
    IF gap = 0 THEN Unjustified(ln)
    ELSE JustifyLine(GetDistances(gap, GetFactors(gap, ln, options)), ln)

(***************************************************************************)
(* Lines handed to the justification engine: one or two runs of letters,   *)
(* spaces and marks, in a box wider or narrower than their advance width.  *)
(***************************************************************************)
\* a glyph and its xAdvance
Letter == [glyph |-> [codePoints |-> <<97>>, isMark |-> FALSE], xAdvance |-> 100]

Space == [glyph |-> [codePoints |-> <<WHITE_SPACES_CODE>>, isMark |-> FALSE], xAdvance |-> 60]

Mark == [glyph |-> [codePoints |-> <<769>>, isMark |-> TRUE], xAdvance |-> 0]

MaxGlyphs == 4

\* box.width - advanceWidth(line): beyond what the shrink weights cover, within
\* them, an exact fit, within the expansion weights, beyond them
Gaps == {0 - 700, 0 - 20, 0 - 5, 0, 30, 300, 900}

NoOptions ==
    [expandCharFactor |-> <<>>, shrinkCharFactor |-> <<>>,
     expandWhitespaceFactor |-> <<>>, shrinkWhitespaceFactor |-> <<>>]

\* the options of textkit alone, and those getLayoutOptions passes
\* (part_001 1482-1488): shrinkWhitespaceFactor { before: -0.5, after: -0.5 }
OptionSets ==
    {NoOptions,
     [NoOptions EXCEPT !.shrinkWhitespaceFactor = <<[before |-> 0 - 128, after |-> 0 - 128]>>]}

Run(gs) ==
    [glyphs |-> [k \in 1..Len(gs) |-> gs[k].glyph],
     positions |-> [k \in 1..Len(gs) |-> gs[k].xAdvance]]

\* the line of the glyphs gs, the first run ending after cut glyphs
MakeLine(gs, cut, gap) ==
    LET runs == IF cut < Len(gs)
                THEN <<Run(SubSeq(gs, 1, cut)), Run(SubSeq(gs, cut + 1, Len(gs)))>>
                ELSE <<Run(gs)>>
    IN [runs |-> runs, box |-> [width |-> AdvanceWidthRuns(runs) + gap]]

JustInit ==
    /\ jOptions \in OptionSets
    /\ \E gs \in SeqsUpTo({Letter, Space, Mark}, MaxGlyphs) :
          /\ gs # <<>>
          /\ \E cut \in 1..Len(gs) : \E gap \in Gaps :
                /\ jLine = MakeLine(gs, cut, gap)
                /\ jLine.box.width >= 0
    /\ jOut = <<>>
    /\ pc = "justification"
    /\ BreakIdle /\ SplitIdle /\ StringIdle /\ FlattenIdle /\ RectIdle /\ PageIdle

\* justification(options)(line)
JustificationCall ==
    /\ pc = "justification"
    /\ jOut' = Justification(jOptions, jLine)
    /\ pc' = "justified"
    /\ UNCHANGED <<jOptions, jLine>>
    /\ UNCHANGED notJustVars

JustNext == JustificationCall

SpecJustify == JustInit /\ [][JustNext]_vars

(***************************************************************************)
(* Properties of justification                                             *)
(***************************************************************************)
RECURSIVE Positions(_)
\* the positions of all runs in order
Positions(runs) ==
    IF runs = <<>> THEN <<>> ELSE Head(runs).positions \o Positions(Tail(runs))

JGap == jLine.box.width - AdvanceWidthRuns(jLine.runs)

JFactors == GetFactors(JGap, jLine, jOptions)

NonZeroFactor == \E k \in 1..Len(JFactors) : JFactors[k].before + JFactors[k].after # 0

JTotal == SumSeq([k \in 1..Len(JFactors) |-> JFactors[k].before + JFactors[k].after])

\* the advances of the returned line, which share one denominator
JAdvances == Positions(jOut.runs)

JSum == SumSeq([k \in 1..Len(JAdvances) |-> JAdvances[k].n])

\* the advances of the returned line add up to w
SumIs(w) == JSum = w * JAdvances[1].d

AdvancesUnchanged ==
    \A k \in 1..Len(JAdvances) :
        JAdvances[k].n = Positions(jLine.runs)[k] * JAdvances[k].d

NoAdvanceGrows ==
    \A k \in 1..Len(JAdvances) :
        JAdvances[k].n <= Positions(jLine.runs)[k] * JAdvances[k].d

\* C6 as stated: the advances sum to box.width when the line was below
\* capacity and some factor has a non-zero weight; in every other case
\* (over capacity, exact fit, all factors zero) every advance is unchanged.
C6_SumOrUnchanged ==
    pc = "justified" =>
        IF JGap > 0 /\ NonZeroFactor THEN SumIs(jLine.box.width) ELSE AdvancesUnchanged

\* C6, amended: the advances sum to box.width when the line was below capacity
\* and some factor has a non-zero weight; on an exact fit or with all factors
\* zero every advance is unchanged; an over-capacity line with a non-zero
\* factor is shrunk: no advance grows, some advance changes, and the sum is
\* box.width when the shrink weights cover the excess and the advance width
\* plus the total of the weights when they do not.
C6_GrowsOrShrinks ==
    pc = "justified" =>
        /\ (JGap > 0 /\ NonZeroFactor) => SumIs(jLine.box.width)
        /\ (JGap = 0 \/ ~NonZeroFactor) => AdvancesUnchanged
        /\ (JGap < 0 /\ NonZeroFactor) =>
              /\ NoAdvanceGrows
              /\ ~AdvancesUnchanged
              /\ IF Abs(JGap) <= Abs(JTotal)
                 THEN SumIs(jLine.box.width)
                 ELSE SumIs(AdvanceWidthRuns(jLine.runs) + JTotal)

\* an over-capacity line is shrunk to its box
C6_Witness ==
    /\ pc = "justified"
    /\ JGap < 0
    /\ NonZeroFactor
    /\ ~AdvancesUnchanged
    /\ SumIs(jLine.box.width)

\* a line below capacity whose gap exceeds all the weights is stretched to its
\* box, over two runs
C6_WitnessGrow ==
    /\ pc = "justified"
    /\ JGap > Abs(JTotal)
    /\ NonZeroFactor
    /\ Len(jLine.runs) = 2
    /\ SumIs(jLine.box.width)
    /\ ~AdvancesUnchanged

\* a line below capacity with a trailing space has no weight and is unchanged
C6_WitnessZeroFactors ==
    /\ pc = "justified"
    /\ JGap > 0
    /\ ~NonZeroFactor
    /\ Len(JAdvances) >= 2
    /\ AdvancesUnchanged


(***************************************************************************)
(* Attributed strings handed to slice: up to three runs that tile the      *)
(* string, each laid out by layoutRun, with or without a font.             *)
(***************************************************************************)
MaxChars == 4

Chars == {"f", "i", "x"}

\* the attributes of run k; in the mode "some" the even runs have no font
Attributes(k, fontMode) ==
    [font |-> IF fontMode = "some" /\ k % 2 = 0 THEN <<>> ELSE <<"liga">>,
     scale |-> 1,
     color |-> k]

\* the runs that end at the offsets ends, in order
RunsOf(string, ends, fontMode) ==
    [k \in 1..Len(ends) |->
        LayoutRun(string,
                  [start |-> IF k = 1 THEN 0 ELSE ends[k - 1],
                   end |-> ends[k],
                   attributes |-> Attributes(k, fontMode),
                   glyphs |-> <<>>, glyphIndices |-> <<>>, positions |-> <<>>])]

\* the increasing lists of at most three run ends for a string of length n
RunEnds(n) ==
    IF n = 0 THEN {<<>>}
    ELSE {<<n>>} \cup {<<a, n>> : a \in 1..(n - 1)}
            \cup {<<q[1], q[2], n>> :
                       q \in {r \in (1..(n - 1)) \X (1..(n - 1)) : r[1] < r[2]}}

StringInit ==
    /\ \E string \in SeqsUpTo(Chars, MaxChars) :
       \E ends \in RunEnds(Len(string)) :
       \E fontMode \in {"all", "some"} :
          asString = [string |-> string, runs |-> RunsOf(string, ends, fontMode)]
    /\ asCut = <<>>
    /\ asParts = <<>>
    /\ pc = "slice"
    /\ BreakIdle /\ SplitIdle /\ JustIdle /\ FlattenIdle /\ RectIdle /\ PageIdle

\* slice(0, i, s), slice(i, j, s) and slice(0, j, s)
SliceCall(i, j) ==
    /\ pc = "slice"
    /\ asCut' = <<i, j>>
    /\ asParts' = [left |-> Slice(0, i, asString),
                   right |-> Slice(i, j, asString),
                   whole |-> Slice(0, j, asString)]
    /\ pc' = "sliced"
    /\ UNCHANGED asString
    /\ UNCHANGED notStringVars

StringNext ==
    \E j \in 0..Len(asString.string) : \E i \in 0..j : SliceCall(i, j)

SpecString == StringInit /\ [][StringNext]_vars

(***************************************************************************)
(* Properties of slice and concat                                          *)
(***************************************************************************)
\* the run of s that the last run of slice(0, i, s) is cut from
LeftOrigin(i) == Max(RunIndexAt(i - 1, asString.runs), RunIndexAt(0, asString.runs))

\* the run of s that the first run of slice(i, j, s) is cut from
RightOrigin(i) ==
    IF RunIndexAt(i, asString.runs) < 0 THEN Len(asString.runs) - 1
    ELSE RunIndexAt(i, asString.runs)

\* slice(0, i, s) joined with slice(i, j, s): the strings concatenated, the
\* runs of the second shifted by i, and the two parts of the run of s cut at
\* i merged by concat
Joined ==
    LET i == asCut[1]
        left == asParts.left
        shifted == [k \in 1..Len(asParts.right.runs) |-> Add(i, asParts.right.runs[k])]
        merge == /\ left.runs # <<>>
                 /\ shifted # <<>>
                 /\ LeftOrigin(i) = RightOrigin(i)
    IN [string |-> left.string \o asParts.right.string,
        runs |-> IF merge
                 THEN SubSeq(left.runs, 1, Len(left.runs) - 1)
                         \o <<Concat(left.runs[Len(left.runs)], shifted[1])>>
                         \o Tail(shifted)
                 ELSE left.runs \o shifted]

\* start, end, attributes and glyph indices of the runs
RunsView(runs) ==
    [k \in 1..Len(runs) |->
        <<runs[k].start, runs[k].end, runs[k].attributes, runs[k].glyphIndices>>]

JoinIsWhole ==
    /\ Joined.string = asParts.whole.string
    /\ RunsView(Joined.runs) = RunsView(asParts.whole.runs)

\* C8 as stated: for every 0 <= i <= j <= length(s) the join of slice(0, i, s)
\* and slice(i, j, s) has the string and the runs (start, end, attributes,
\* glyph indices) of slice(0, j, s).
C8_JoinReproducesSlice == pc = "sliced" => JoinIsWhole

\* the offset i is inside a run, between two characters of one glyph
CutsLigature(i) ==
    \E k \in 1..Len(asString.runs) :
        LET run == asString.runs[k] IN
        /\ run.start < i /\ i < run.end
        /\ run.glyphIndices # <<>>
        /\ run.glyphIndices[i - run.start + 1] = run.glyphIndices[i - run.start]

\* the offset i is where one run ends and the next one starts
BetweenRuns(i) ==
    \E k \in 1..(Len(asString.runs) - 1) : asString.runs[k].end = i

\* C8, amended: the join has the string and the runs of slice(0, j, s) for
\* every 0 <= i <= j <= length(s), unless i falls between two characters of
\* one ligature glyph (and i < j), or i = j is the offset between two runs.
C8_JoinReproducesSliceAtGlyphs ==
    pc = "sliced" =>
        LET i == asCut[1]
            j == asCut[2]
        IN IF (i < j /\ CutsLigature(i)) \/ (i = j /\ BetweenRuns(i))
           THEN ~JoinIsWhole
           ELSE JoinIsWhole

\* a run is cut inside, next to a ligature that stays whole, and the two parts
\* are merged by concat
C8_Witness ==
    /\ pc = "sliced"
    /\ asCut[1] > 0 /\ asCut[1] < asCut[2]
    /\ ~BetweenRuns(asCut[1])
    /\ ~CutsLigature(asCut[1])
    /\ LeftOrigin(asCut[1]) = RightOrigin(asCut[1])
    /\ Len(asString.runs) >= 2
    /\ \E k \in 1..Len(asParts.whole.runs) :
          LET g == asParts.whole.runs[k].glyphIndices IN
          \E c \in 1..(Len(g) - 1) : g[c] = g[c + 1]
    /\ JoinIsWhole

\* a ligature is cut in two
C8_WitnessLigature ==
    /\ pc = "sliced"
    /\ asCut[1] < asCut[2]
    /\ CutsLigature(asCut[1])
    /\ ~JoinIsWhole


(***************************************************************************)
(* flatten (textkit.js 1024-1141)                                          *)
(*                                                                         *)
(* An attributes object is a record: ref stands for the identity of the    *)
(* object, which flattenRegularRuns compares with ===; a key the object    *)
(* does not have is "none".  Objects that flatten creates get refs of      *)
(* their own.                                                              *)
(***************************************************************************)
\* {}
EmptyObject(ref) == [ref |-> ref, color |-> "none", weight |-> "none"]

\* Object.assign({}, a, b), a new object
Assign(ref, a, b) ==
    [ref |-> ref,
     color |-> IF b.color # "none" THEN b.color ELSE a.color,
     weight |-> IF b.weight # "none" THEN b.weight ELSE a.weight]

\* lines 1034-1036
IsEmpty(run) == run.start = run.end

IsRegular(run) == ~IsEmpty(run)

\* array.sort(compare) for a comparator given as the pair of keys it orders
\* by; elements that compare equal keep their order
SortByKeys(array, key1, key2) ==
    LET Before(m, k) ==
            \/ key1[m] < key1[k]
            \/ key1[m] = key1[k] /\ key2[m] < key2[k]
            \/ key1[m] = key1[k] /\ key2[m] = key2[k] /\ m < k
        Place(k) == 1 + Cardinality({m \in 1..Len(array) : Before(m, k)})
    IN [q \in 1..Len(array) |-> array[CHOOSE k \in 1..Len(array) : Place(k) = q]]

\* lines 1024-1026: by start, then by end
Sort(runs) ==
    SortByKeys(runs, [k \in 1..Len(runs) |-> runs[k].start],
               [k \in 1..Len(runs) |-> runs[k].end])

\* lines 1051-1059, the points sorted by sortPoints: by offset, then by run
GeneratePoints(runs) ==
    LET result == [q \in 1..(2 * Len(runs)) |->
                      LET i == (q + 1) \div 2 IN
                      [type |-> IF q % 2 = 1 THEN "start" ELSE "end",
                       offset |-> IF q % 2 = 1 THEN runs[i].start ELSE runs[i].end,
                       attributes |-> runs[i].attributes,
                       i |-> i - 1]]
    IN SortByKeys(result, [q \in 1..Len(result) |-> result[q].offset],
                  [q \in 1..Len(result) |-> result[q].i])

RECURSIVE MergeRunsFrom(_, _, _)
\* the reduce of mergeRuns over the remaining runs
MergeRunsFrom(runs, acc, ref) ==
    IF runs = <<>> THEN acc
    ELSE MergeRunsFrom(Tail(runs),
                       [Head(runs) EXCEPT !.attributes =
                           Assign(ref, acc.attributes, Head(runs).attributes)],
                       ref)

\* lines 1064-1069
MergeRuns(runs, ref) ==
    MergeRunsFrom(runs, [attributes |-> EmptyObject(ref)], ref)

\* lines 1074-1082: the groups in the order of their start
GroupEmptyRuns(runs) ==
    LET starts == {runs[k].start : k \in 1..Len(runs)}
        Group(p) == SelectSeq(runs, LAMBDA run : run.start = p)
        ordered == SortByKeys([k \in 1..Len(runs) |-> runs[k].start],
                              [k \in 1..Len(runs) |-> runs[k].start],
                              [k \in 1..Len(runs) |-> 0])
        first == SelectSeq([k \in 1..Len(ordered) |->
                               IF k = 1 \/ ordered[k] # ordered[Max(k - 1, 1)]
                               THEN <<ordered[k]>> ELSE <<>>],
                           LAMBDA e : e # <<>>)
    IN [k \in 1..Len(first) |-> Group(first[k][1])]

\* lines 1087-1089
FlattenEmptyRuns(runs) ==
    LET groups == GroupEmptyRuns(runs) IN
    [k \in 1..Len(groups) |-> MergeRuns(groups[k], 100 + k)]

\* mutant: a run of no length is pushed too
ShouldPushEmpty(start, offset) == start # 0 - 1 /\ start <= offset

\* start !== -1 && start < offset
ShouldPush(start, offset) == start # 0 - 1 /\ start < offset

RECURSIVE MergeStack(_, _, _)
\* the attributes left when an object ends: those of the stack entries that
\* are not that object, assigned in order
MergeStack(stack, attrs, ref) ==
    IF stack = <<>> THEN attrs
    ELSE MergeStack(Tail(stack), Assign(ref, attrs, Head(stack)), ref)

RECURSIVE FlattenFrom(_, _, _, _, _, _)
\* the loop of flattenRegularRuns from point i (zero-based), lines 1100-1128
FlattenFrom(points, i, res, start, attrs, stack) ==
    IF i >= Len(points) THEN res
    ELSE
    LET point == points[i + 1]
        pushed == IF ShouldPush(start, point.offset)
                  THEN Append(res, [start |-> start, end |-> point.offset,
                                    attributes |-> attrs])
                  ELSE res
        kept == SelectSeq(stack, LAMBDA a : a.ref # point.attributes.ref)
    IN IF point.type = "start"
       THEN FlattenFrom(points, i + 1, pushed, point.offset,
                        Assign(10 + i, attrs, point.attributes),
                        Append(stack, point.attributes))
       ELSE FlattenFrom(points, i + 1, pushed, point.offset,
                        MergeStack(kept, EmptyObject(10 + i), 10 + i),
                        kept)

\* lines 1094-1130
FlattenRegularRuns(runs) ==
    FlattenFrom(GeneratePoints(runs), 0, <<>>, 0 - 1, EmptyObject(0), <<>>)

\* lines 1137-1141
Flatten(runs) ==
    LET emptyRuns == FlattenEmptyRuns(SelectSeq(runs, IsEmpty))
        regularRuns == FlattenRegularRuns(SelectSeq(runs, IsRegular))
    IN Sort(emptyRuns \o regularRuns)

(***************************************************************************)
(* Runs handed to flatten: any list of runs over a few offsets, in any     *)
(* order, two of them possibly sharing one attributes object.              *)
(***************************************************************************)
MaxRuns == 3

Offsets == 0..3

AttributeObjects ==
    {[ref |-> 1, color |-> "red", weight |-> "none"],
     [ref |-> 2, color |-> "blue", weight |-> "bold"]}

PlainRuns ==
    {[start |-> a, end |-> b, attributes |-> o] :
        a \in Offsets, b \in Offsets, o \in AttributeObjects}

FlattenInit ==
    /\ fRuns \in SeqsUpTo({r \in PlainRuns : r.start <= r.end}, MaxRuns)
    /\ fOnce = <<>>
    /\ fTwice = <<>>
    /\ pc = "flatten"
    /\ BreakIdle /\ SplitIdle /\ JustIdle /\ StringIdle /\ RectIdle /\ PageIdle

\* flatten(runs)
FlattenCall ==
    /\ pc = "flatten"
    /\ fOnce' = Flatten(fRuns)
    /\ pc' = "flattened"
    /\ UNCHANGED <<fRuns, fTwice>>
    /\ UNCHANGED notFlattenVars

\* flatten(flatten(runs))
FlattenAgain ==
    /\ pc = "flattened"
    /\ fTwice' = Flatten(fOnce)
    /\ pc' = "reflattened"
    /\ UNCHANGED <<fRuns, fOnce>>
    /\ UNCHANGED notFlattenVars

FlattenNext == FlattenCall \/ FlattenAgain

SpecFlatten == FlattenInit /\ [][FlattenNext]_vars

(***************************************************************************)
(* Properties of flatten                                                   *)
(***************************************************************************)
\* start, end and the keys of the attributes of the runs, in order
FlatView(runs) ==
    [k \in 1..Len(runs) |->
        <<runs[k].start, runs[k].end, runs[k].attributes.color,
          runs[k].attributes.weight>>]

\* C9: flatten is idempotent: flatten(flatten(runs)) has the runs of
\* flatten(runs), with the same start, end and attributes, in the same order.
C9_FlattenIdempotent ==
    pc = "reflattened" => FlatView(fTwice) = FlatView(fOnce)

\* two runs that overlap, given out of order, and a run of no length
C9_Witness ==
    /\ pc = "reflattened"
    /\ Len(fRuns) = 3
    /\ IsRegular(fRuns[1]) /\ IsRegular(fRuns[2]) /\ IsEmpty(fRuns[3])
    /\ fRuns[2].start < fRuns[1].start
    /\ fRuns[1].start < fRuns[2].end /\ fRuns[2].end < fRuns[1].end
    /\ fRuns[1].attributes # fRuns[2].attributes
    /\ Len(fOnce) = 4

\* two runs with a gap between them, which flatten fills with a run without
\* attributes
C9_WitnessGap ==
    /\ pc = "reflattened"
    /\ Len(fRuns) = 2
    /\ fRuns[1].end < fRuns[2].start
    /\ IsRegular(fRuns[1]) /\ IsRegular(fRuns[2])
    /\ Len(fOnce) = 3
    /\ fOnce[2].attributes.color = "none"


(***************************************************************************)
(* Attributed strings built by fromFragments and generateGlyphs from at    *)
(* most MaxFragments fragments, then handed to slice, trim, append,        *)
(* insertGlyph and dropLast, one after the other, as long as the string    *)
(* is well formed and has at most MaxOpsChars characters.                  *)
(***************************************************************************)
MaxFragments == 2

MaxOpsChars == 4

OpsChars == {"f", "i", " "}

Fragments ==
    SeqsUpTo([string : SeqsUpTo(OpsChars, 2),
              attributes : {[font |-> f, scale |-> 1, color |-> 0] : f \in {<<>>, <<"liga">>}}],
             MaxFragments)

\* the glyphs and code points handed to append and insertGlyph
EllipsisGlyph == [codePoints |-> <<".">>, advanceWidth |-> 3]

Values ==
    {[isNumber |-> TRUE, codePoint |-> HYPHEN], [isNumber |-> FALSE, glyph |-> EllipsisGlyph]}

\* string.length == last(runs).end, the runs ordered and contiguous from 0
WellFormed(attributedString) ==
    LET runs == attributedString.runs IN
    /\ runs # <<>> => /\ runs[1].start = 0
                      /\ runs[Len(runs)].end = Len(attributedString.string)
    /\ runs = <<>> => attributedString.string = <<>>
    /\ \A k \in 1..Len(runs) : runs[k].start <= runs[k].end
    /\ \A k \in 1..(Len(runs) - 1) : runs[k].end = runs[k + 1].start

OpsInit ==
    /\ \E fragments \in Fragments : asString = GenerateGlyphs(FromFragments(fragments))
    /\ asCut = <<>>
    /\ asParts = <<>>
    /\ pc = "ops"
    /\ BreakIdle /\ SplitIdle /\ JustIdle /\ FlattenIdle /\ RectIdle /\ PageIdle

\* one operation on a well-formed string: asParts is its input, asString its
\* result
Operation(name, result) ==
    /\ pc = "ops"
    /\ WellFormed(asString)
    /\ asCut' = name
    /\ asParts' = asString
    /\ asString' = result
    /\ UNCHANGED pc
    /\ UNCHANGED notStringVars

OpSlice(i, j) == Operation(<<"slice", i, j>>, Slice(i, j, asString))

OpTrim == Operation(<<"trim">>, Trim(asString))

OpAppend(value) ==
    /\ Len(asString.string) < MaxOpsChars
    /\ ~Append1Throws(value, LastRun(asString))
    /\ Operation(<<"append", value.isNumber>>, AppendString(value, asString))

OpInsertGlyph(index) ==
    /\ Len(asString.string) < MaxOpsChars
    /\ ~InsertGlyphThrows(index, HYPHEN, asString)
    /\ Operation(<<"insertGlyph", index>>, InsertGlyph(index, HYPHEN, asString))

OpDropLast ==
    /\ asString.string # <<>>
    /\ Operation(<<"dropLast">>, DropLast(asString))

OpsNext ==
    \/ \E j \in 0..Len(asString.string) : \E i \in 0..j : OpSlice(i, j)
    \/ OpTrim
    \/ \E value \in Values : OpAppend(value)
    \/ \E index \in 0..Len(asString.string) : OpInsertGlyph(index)
    \/ OpDropLast

SpecOps == OpsInit /\ [][OpsNext]_vars

\* C11: a string built by fromFragments is well formed, and slice, trim,
\* append, insertGlyph and dropLast keep a well-formed string well formed
\* whenever their result is not empty: its length is the end of its last run
\* and its runs are ordered and contiguous from offset 0.
C11_OperationsKeepWellFormed ==
    pc = "ops" =>
        /\ asCut = <<>> => WellFormed(asString)
        /\ asCut # <<>> /\ asString.string # <<>> => WellFormed(asString)

\* the same for slice, trim, append, and for insertGlyph into a run with a
\* font
C11_FontOperationsKeepWellFormed ==
    pc = "ops" /\ asCut # <<>> /\ asString.string # <<>>
        /\ asCut[1] # "dropLast"
        /\ (asCut[1] = "insertGlyph" =>
               \A k \in 1..Len(asParts.runs) : GetFont(asParts.runs[k]) # <<>>)
    => WellFormed(asString)


(***************************************************************************)
(* Properties of breakLines at hyphenation breaks                          *)
(***************************************************************************)
\* the breaks of breaks.slice(1) for which breakLines emits a line
LineBreaks == SelectSeq(Tail(breaks), LAMBDA b : b # Len(nodes) - 1)

\* the node at break b
BreakNode(b) == nodes[b + 1]

\* a hyphenation point: a penalty node other than the final forced one
IsHyphenation(b) == BreakNode(b).type = "penalty" /\ b # Len(nodes) - 1

\* C12: the line emitted at a penalty break is the slice of the paragraph that
\* ends at the end of the box before the penalty, followed by exactly one
\* hyphen, and the next line starts at that offset; the line emitted at any
\* other break, and the last line, is the slice itself with nothing appended.
C12_HyphenAtPenaltyOnly ==
    pc = "done" =>
        LET string == Flat(syllables) IN
        /\ Len(lines) = Len(LineBreaks) + 1
        /\ \A i \in 1..Len(LineBreaks) :
              LET b == LineBreaks[i]
                  start == IF i = 1 THEN 0 ELSE lines[i - 1].end
              IN IF IsHyphenation(b)
                 THEN /\ nodes[b].type = "box"
                      /\ lines[i].string
                           = JsSlice(string, start, nodes[b].end) \o <<HYPHEN>>
                      /\ lines[i].end = nodes[b].end
                      /\ lines[i + 1].start = nodes[b].end
                      /\ JsSlice(lines[i + 1].string, 0, lines[i + 1].end - nodes[b].end)
                           = JsSlice(string, nodes[b].end, lines[i + 1].end)
                 ELSE /\ lines[i].string = JsSlice(string, start, BreakNode(b).end)
                      /\ lines[i].end = BreakNode(b).end
        /\ lines[Len(lines)].string
             = JsSlice(string, lines[Len(lines)].start, Len(string))

\* three lines: one broken at a hyphenation penalty, one at a glue
C12_Witness ==
    /\ pc = "done"
    /\ Len(LineBreaks) >= 2
    /\ \E i \in 1..Len(LineBreaks) : IsHyphenation(LineBreaks[i])
    /\ \E i \in 1..Len(LineBreaks) : BreakNode(LineBreaks[i]).type = "glue"


(***************************************************************************)
(* splitText on one text node (part_001 1094-1156): a text of at most      *)
(* MaxLines lines at the offset top, its box as high as its lines, with    *)
(* props.orphans and props.widows absent (0) or set, split at any height   *)
(* up to MaxSplitHeight.                                                   *)
(***************************************************************************)
MaxLines == 5

MaxSplitHeight == 14

LineHeights == {2, 3}

OrphanCounts == 0..3

TextTops == {0, 1}

TextNode(lns, top, orphans, widows) ==
    Node(10, "TEXT", Props("absent", TRUE, FALSE, 0, orphans, widows),
         top, SumSeq(lns), <<>>, <<>>, lns)

TextInit ==
    /\ \E lns \in SeqsUpTo(LineHeights, MaxLines) \ {<<>>} :
       \E top \in TextTops :
       \E orphans \in OrphanCounts :
       \E widows \in OrphanCounts :
          pageChildren = <<TextNode(lns, top, orphans, widows)>>
    /\ wrapArea \in 0..MaxSplitHeight
    /\ pageArea = MaxSplitHeight
    /\ currentChilds = <<>>
    /\ nextChilds = <<>>
    /\ pc = "splitText"
    /\ BreakIdle /\ JustIdle /\ StringIdle /\ FlattenIdle /\ RectIdle /\ PageIdle

\* splitText(node, height)
SplitTextCall ==
    /\ pc = "splitText"
    /\ LET parts == SplitText(pageChildren[1], wrapArea) IN
          /\ currentChilds' = <<parts[1]>>
          /\ nextChilds' = <<parts[2]>>
    /\ pc' = "textSplit"
    /\ UNCHANGED <<wrapArea, pageArea, pageChildren>>
    /\ UNCHANGED notSplitVars

TextNext == SplitTextCall

SpecText == TextInit /\ [][TextNext]_vars

(***************************************************************************)
(* Properties of splitText                                                 *)
(***************************************************************************)
\* node.props.orphans || 2
OrphansOf(node) == IF node.props.orphans = 0 THEN 2 ELSE node.props.orphans

\* node.props.widows || 2
WidowsOf(node) == IF node.props.widows = 0 THEN 2 ELSE node.props.widows

\* splitText left lines in both fragments
LinesOnBothSides == currentChilds[1].lines # <<>> /\ nextChilds[1].lines # <<>>

\* C13: when splitText leaves lines in both fragments, the current fragment
\* has at least orphans lines and the next one at least widows lines, each
\* count being 2 when the prop is absent.
C13_OrphansAndWidowsKept ==
    pc = "textSplit" /\ LinesOnBothSides =>
        /\ Len(currentChilds[1].lines) >= OrphansOf(pageChildren[1])
        /\ Len(nextChilds[1].lines) >= WidowsOf(pageChildren[1])
        /\ currentChilds[1].lines \o nextChilds[1].lines = pageChildren[1].lines

\* more lines fit than stay: the break was moved back to leave three widows
C13_Witness ==
    /\ pc = "textSplit"
    /\ LinesOnBothSides
    /\ pageChildren[1].props.widows = 3
    /\ Len(nextChilds[1].lines) = 3
    /\ LineIndexAtHeight(pageChildren[1], wrapArea - pageChildren[1].box.top)
          > Len(currentChilds[1].lines)

\* the node starts on the page and ends beyond it: splitNodes splits it
MustSplit(node, h) == node.box.top < h /\ h < node.box.top + node.box.height

\* C14: a text with fewer lines than its orphan count that must be split
\* leaves none of its lines in the current fragment: all move to the next.
C14_ShortTextMovesWhole ==
    pc = "textSplit"
        /\ Len(pageChildren[1].lines) < OrphansOf(pageChildren[1])
        /\ MustSplit(pageChildren[1], wrapArea)
    => /\ currentChilds[1].lines = <<>>
       /\ nextChilds[1].lines = pageChildren[1].lines

\* the same when not even the first line fits
C14_ShortTextMovesWholeIfNoLineFits ==
    pc = "textSplit"
        /\ Len(pageChildren[1].lines) < OrphansOf(pageChildren[1])
        /\ MustSplit(pageChildren[1], wrapArea)
    => IF LineIndexAtHeight(pageChildren[1], wrapArea - pageChildren[1].box.top) = 0
       THEN currentChilds[1].lines = <<>> /\ nextChilds[1].lines = pageChildren[1].lines
       ELSE currentChilds[1].lines = pageChildren[1].lines /\ nextChilds[1].lines = <<>>


(***************************************************************************)
(* Properties of the tolerance escalation of linebreaker                   *)
(***************************************************************************)
\* the tolerances of the Knuth-Plass passes start at options.tolerance || 4
\* and rise by TOLERANCE_STEPS, each rise after a pass that returned no breaks
EscalatesAfterFailure ==
    /\ passes # <<>> => passes[1].tolerance = (IF optTolerance = 0 THEN 4 ELSE optTolerance)
    /\ \A k \in 2..Len(passes) :
          /\ passes[k].tolerance = passes[k - 1].tolerance + TOLERANCE_STEPS
          /\ passes[k - 1].breaks = <<>>

\* C15: the tolerance starts at options.tolerance (4 by default), rises by 5
\* only after a pass that returned no breaks, and no Knuth-Plass pass runs
\* with a tolerance above TOLERANCE_LIMIT; the number of passes is bounded.
C15_ToleranceWithinLimit ==
    /\ EscalatesAfterFailure
    /\ \A k \in 1..Len(passes) : passes[k].tolerance <= TOLERANCE_LIMIT
    /\ Len(passes) <= TOLERANCE_LIMIT \div TOLERANCE_STEPS + 1

\* what the loop guard gives: every pass but the first starts from a
\* tolerance below TOLERANCE_LIMIT, so it runs below the limit plus one step
C15_ToleranceBelowLimitPlusStep ==
    /\ EscalatesAfterFailure
    /\ \A k \in 2..Len(passes) :
          /\ passes[k - 1].tolerance < TOLERANCE_LIMIT
          /\ passes[k].tolerance < TOLERANCE_LIMIT + TOLERANCE_STEPS
    /\ Len(passes) <= TOLERANCE_LIMIT \div TOLERANCE_STEPS + 1


(***************************************************************************)
(* Properties of flatten: which run gives a position its attributes        *)
(***************************************************************************)
\* the run covers the character at offset p
Covers(run, p) == run.start <= p /\ p < run.end

\* the value of key at p given by the covering input run that defines the
\* key and is last in the order Later; "none" when there is no such run
ValueAt(key, p, Later(_, _)) ==
    LET ks == {k \in 1..Len(fRuns) :
                  Covers(fRuns[k], p) /\ fRuns[k].attributes[key] # "none"}
    IN IF ks = {} THEN "none"
       ELSE fRuns[CHOOSE k \in ks : \A m \in ks \ {k} : Later(k, m)].attributes[key]

\* run k comes after run m in the input list
LaterInInput(k, m) == k > m

\* run k starts after run m, or at the same offset and comes after it in the
\* input list: the order of the start points
LaterStart(k, m) ==
    \/ fRuns[k].start > fRuns[m].start
    \/ fRuns[k].start = fRuns[m].start /\ k > m

\* every character of the output has, per key, the value ValueAt gives
ValuesFollow(Later(_, _)) ==
    \A k \in 1..Len(fOnce) : \A p \in Offsets :
        Covers(fOnce[k], p) =>
            /\ fOnce[k].attributes.color = ValueAt("color", p, Later)
            /\ fOnce[k].attributes.weight = ValueAt("weight", p, Later)

\* C16: in the output of flatten every character has, for every key, the
\* value of the last run in input order that covers it and defines the key,
\* wherever the runs start.
C16_LaterInputOverrides == pc = "flattened" => ValuesFollow(LaterInInput)

\* no attributes object is shared by two runs that have characters
NoSharedObject ==
    \A k, m \in 1..Len(fRuns) :
        k # m /\ IsRegular(fRuns[k]) /\ IsRegular(fRuns[m])
            => fRuns[k].attributes.ref # fRuns[m].attributes.ref

\* what the stack of flattenRegularRuns gives: the covering run that starts
\* last overrides, the input order deciding between equal starts
C16_LaterStartOverrides ==
    pc = "flattened" /\ NoSharedObject => ValuesFollow(LaterStart)


(***************************************************************************)
(* One pass of linebreak (textkit.js 1996-2140) as a state machine: the    *)
(* forEach over the nodes, and inside mainLoop one pass of its outer       *)
(* while loop per step.                                                    *)
(***************************************************************************)
MaxActiveSyllables == 6

\* one line length for every line, and a short first line
ActiveWidths == {<<27>>, <<9, 30>>}

\* the default tolerance and the tolerance of the first retry
ActiveTolerances == {4, 9}

ActiveInit ==
    /\ syllables \in SeqsUpTo(Syllable, MaxActiveSyllables)
    /\ availableWidths \in ActiveWidths
    /\ align = "left"
    /\ tolerance \in ActiveTolerances
    /\ optTolerance = 0
    /\ nodes = GetNodes(syllables, align)
    /\ breaks = <<>>
    /\ passes = <<>>
    /\ lines = <<>>
    /\ usedBestFit = FALSE
    /\ kpIndex = 0
    /\ kpActive = KPInit.activeNodes
    /\ kpSum = KPInit.sum
    /\ kpPos = 0
    /\ pc = "forEach"
    /\ SplitIdle /\ JustIdle /\ StringIdle /\ FlattenIdle /\ RectIdle /\ PageIdle

\* the forEach callback calls mainLoop for the node at kpIndex
CallsMainLoop ==
    LET node == nodes[kpIndex + 1] IN
    \/ node.type = "glue" /\ kpIndex > 0 /\ nodes[kpIndex].type = "box"
    \/ node.type = "penalty" /\ node.penalty # INFINITY

\* the forEach callback for a node, mainLoop apart: lines 2122-2137
ForEachNode ==
    /\ pc = "forEach"
    /\ kpIndex < Len(nodes)
    /\ kpPos = 0
    /\ IF CallsMainLoop
       THEN /\ kpPos' = 1
            /\ pc' = "mainLoop"
            /\ UNCHANGED <<kpIndex, kpActive, kpSum>>
       ELSE /\ kpSum' = KPStep(nodes, availableWidths, tolerance,
                               [activeNodes |-> kpActive, sum |-> kpSum], kpIndex).sum
            /\ kpIndex' = kpIndex + 1
            /\ UNCHANGED <<kpActive, kpPos, pc>>
    /\ UNCHANGED breakVars
    /\ UNCHANGED notKpVars

\* one pass of the outer while loop of mainLoop
MainLoopPass ==
    /\ pc = "mainLoop"
    /\ kpPos <= Len(kpActive)
    /\ LET st == InnerLoop(nodes, availableWidths, kpSum, kpIndex, tolerance,
                           kpActive, kpPos)
       IN /\ kpActive' = st.activeNodes
          /\ kpPos' = st.active
    /\ UNCHANGED <<kpIndex, kpSum, pc>>
    /\ UNCHANGED breakVars
    /\ UNCHANGED notKpVars

\* active === null: mainLoop returns and the callback adds the glue to sum
MainLoopReturn ==
    /\ pc = "mainLoop"
    /\ kpPos > Len(kpActive)
    /\ kpSum' = KPStep(nodes, availableWidths, tolerance,
                       [activeNodes |-> kpActive, sum |-> kpSum], kpIndex).sum
    /\ kpIndex' = kpIndex + 1
    /\ kpPos' = 0
    /\ pc' = "forEach"
    /\ UNCHANGED kpActive
    /\ UNCHANGED breakVars
    /\ UNCHANGED notKpVars

\* return findBestBreakpoints(activeNodes)
LinebreakReturn ==
    /\ pc = "forEach"
    /\ kpIndex = Len(nodes)
    /\ breaks' = FindBestBreakpoints(kpActive)
    /\ pc' = "returned"
    /\ UNCHANGED <<syllables, align, availableWidths, optTolerance, tolerance, nodes,
                   passes, lines, usedBestFit>>
    /\ UNCHANGED kpVars
    /\ UNCHANGED notKpVars

ActiveNext == ForEachNode \/ MainLoopPass \/ MainLoopReturn \/ LinebreakReturn

SpecActive == ActiveInit /\ [][ActiveNext]_vars

(***************************************************************************)
(* Properties of the active list                                           *)
(***************************************************************************)
\* the active list is in non-decreasing order of line
SortedByLine ==
    \A k \in 1..(Len(kpActive) - 1) : kpActive[k].line <= kpActive[k + 1].line

\* no two active nodes have the same position, line and fitness class
OnePerTriple ==
    \A k, m \in 1..Len(kpActive) :
        k # m => <<kpActive[k].position, kpActive[k].line, kpActive[k].fitnessClass>>
                   # <<kpActive[m].position, kpActive[m].line, kpActive[m].fitnessClass>>

\* after the final forced break only breakpoints at that break are active
OnlyFinalBreaks ==
    pc \in {"forEach", "returned"} /\ kpIndex = Len(nodes) =>
        \A k \in 1..Len(kpActive) : kpActive[k].position = Len(nodes) - 1

\* the demerits of a break at the node kpIndex after the active node a
DemeritsAfter(a) ==
    Demerits(nodes, nodes[kpIndex + 1],
             ComputeCost(nodes, availableWidths, kpSum, kpIndex, a, a.line + 1), a)

\* a break at the node kpIndex after the active node a is feasible and of
\* fitness class c
CandidateAfter(a, c) ==
    LET ratio == ComputeCost(nodes, availableWidths, kpSum, kpIndex, a, a.line + 1)
    IN Feasible(ratio, tolerance) /\ FitnessClass(ratio) = c

\* the active nodes of a pass of the outer loop that were not in the list
\* before it
Inserted ==
    {k \in 1..Len(kpActive') :
        /\ kpActive'[k].position = kpIndex
        /\ \A m \in 1..Len(kpActive) : kpActive[m] # kpActive'[k]}

\* the node a pass inserts for a line and a class has the lowest demerits of
\* all feasible breaks of that class after an active node of the line before
\* (an active node at an earlier position: those at kpIndex were inserted by
\* this call of mainLoop and are not visited)
LowestDemeritsKept ==
    pc = "mainLoop" /\ pc' = "mainLoop" =>
        \A k \in Inserted :
           \A m \in 1..Len(kpActive) :
              /\ kpActive[m].position < kpIndex
              /\ kpActive[m].line + 1 = kpActive'[k].line
              /\ CandidateAfter(kpActive[m], kpActive'[k].fitnessClass)
              => kpActive'[k].demerits <= DemeritsAfter(kpActive[m])

\* C17: throughout a Knuth-Plass pass the active list is in non-decreasing
\* order of line and holds at most one node per position, line and fitness
\* class, the one of lowest demerits found for them; once the final forced
\* break is processed it holds only nodes at that break.
C17_ActiveListOrdered ==
    /\ [](SortedByLine /\ OnePerTriple /\ OnlyFinalBreaks)
    /\ [][LowestDemeritsKept]_vars

\* two active nodes at one position and line in different fitness classes,
\* after a node of the same line at an earlier position
C17_Witness ==
    /\ pc = "mainLoop"
    /\ \E k, m, q \in 1..Len(kpActive) :
          /\ k < m /\ m < q
          /\ kpActive[k].line = kpActive[q].line
          /\ kpActive[m].line = kpActive[q].line
          /\ kpActive[k].position = kpActive[m].position
          /\ kpActive[k].fitnessClass # kpActive[m].fitnessClass
          /\ kpActive[q].position < kpActive[m].position


(***************************************************************************)
(* Bidi reordering of a line (textkit.js 814-886).  A glyph of the font    *)
(* has the id of its code points and is a ligature when it has several.    *)
(* A position is [xAdvance, at], at standing for the identity of the       *)
(* position object: the run and the place in it where layoutRun put it.    *)
(* bidi-js is not part of the sources: getReorderSegments is rule L2 of    *)
(* the bidi algorithm, "reverse each contiguous same/higher-level          *)
(* segment", from the highest level down to the lowest odd level, a        *)
(* segment being [start, end] with both ends included and start < end.     *)
(***************************************************************************)
\* glyph.id
GlyphId(glyph) == glyph.codePoints

\* glyph.isLigature
IsLigature(glyph) == Len(glyph.codePoints) > 1

\* lines 814-820
GetBidiLevels(runs) ==
    Flat([k \in 1..Len(runs) |->
             [q \in 1..(runs[k].end - runs[k].start) |-> runs[k].attributes.bidiLevel]])

\* the segments of one level, in the order of their start
SegmentsOfLevel(levels, lvl) ==
    LET n == Len(levels)
        AtOrAbove(p) == levels[p + 1] >= lvl
        ranges == {r \in (0..(n - 1)) \X (0..(n - 1)) :
                      /\ r[1] < r[2]
                      /\ \A p \in r[1]..r[2] : AtOrAbove(p)
                      /\ r[1] = 0 \/ ~AtOrAbove(r[1] - 1)
                      /\ r[2] = n - 1 \/ ~AtOrAbove(r[2] + 1)}
        Place(r) == 1 + Cardinality({s \in ranges : s[1] < r[1]})
    IN [q \in 1..Cardinality(ranges) |-> CHOOSE r \in ranges : Place(r) = q]

RECURSIVE SegmentsFrom(_, _, _)
\* the segments of the levels lvl, lvl - 1, ..., minOddLevel
SegmentsFrom(levels, lvl, minOddLevel) ==
    IF lvl < minOddLevel THEN <<>>
    ELSE SegmentsOfLevel(levels, lvl) \o SegmentsFrom(levels, lvl - 1, minOddLevel)

\* bidi.getReorderSegments(line.string, {paragraphs: [{start: 0, end, level}], levels})
\* for a line without trailing white space
GetReorderSegments(levels, level) ==
    IF Len(levels) <= 1 THEN <<>>
    ELSE LET all == {levels[k] : k \in 1..Len(levels)}
             maxLevel == CHOOSE m \in all \cup {level} : \A l \in all \cup {level} : l <= m
             lowest == CHOOSE m \in all : \A l \in all : m <= l
             minOddLevel == IF lowest % 2 = 1 THEN lowest ELSE lowest + 1
         IN SegmentsFrom(levels, maxLevel, minOddLevel)

RECURSIVE GetReorderedIndicesFrom(_, _, _)
\* lines 821-835: the segments from segment k on, each reversed in place
GetReorderedIndicesFrom(indices, segments, k) ==
    IF k > Len(segments) THEN indices
    ELSE LET start == segments[k][1]
             end == segments[k][2]
         IN GetReorderedIndicesFrom(
                [p \in 1..Len(indices) |->
                    IF start + 1 <= p /\ p <= end + 1
                    THEN indices[start + 1 + (end + 1 - p)]
                    ELSE indices[p]],
                segments, k + 1)

\* lines 821-835
GetReorderedIndices(string, segments) ==
    GetReorderedIndicesFrom([p \in 1..Len(string) |-> p - 1], segments, 1)

\* lines 836-845, for an index some run covers
GetItemAtIndex(runs, objectName, index) ==
    LET run == runs[RunIndexAt(index, runs) + 1]
        updatedIndex == run.glyphIndices[index - run.start + 1]
    IN run[objectName][updatedIndex + 1]

RECURSIVE ReorderRunFrom(_, _, _, _, _, _)
\* the for loop of lines 863-873 from selectedIndices[i]
ReorderRunFrom(runs, selectedIndices, i, updatedGlyphs, updatedPositions, addedGlyphs) ==
    IF i >= Len(selectedIndices)
    THEN [glyphs |-> updatedGlyphs, positions |-> updatedPositions]
    ELSE LET index == selectedIndices[i + 1]
             glyph == GetItemAtIndex(runs, "glyphs", index)
         IN IF GlyphId(glyph) \in addedGlyphs
            THEN ReorderRunFrom(runs, selectedIndices, i + 1, updatedGlyphs,
                                updatedPositions, addedGlyphs)
            ELSE ReorderRunFrom(runs, selectedIndices, i + 1,
                                Append(updatedGlyphs, glyph),
                                Append(updatedPositions,
                                       GetItemAtIndex(runs, "positions", index)),
                                IF IsLigature(glyph)
                                THEN addedGlyphs \cup {GlyphId(glyph)}
                                ELSE addedGlyphs)

\* lines 846-886; getReorderedString puts the characters in the order of the
\* indices
ReorderLine(line) ==
    LET levels == GetBidiLevels(line.runs)
        level == IF line.runs # <<>> /\ line.runs[1].attributes.direction = "rtl"
                 THEN 1 ELSE 0
        segments == GetReorderSegments(levels, level)
        indices == GetReorderedIndices(line.string, segments)
    IN IF segments = <<>> THEN line
       ELSE [string |-> [p \in 1..Len(line.string) |-> line.string[indices[p] + 1]],
             runs |-> [k \in 1..Len(line.runs) |->
                          LET run == line.runs[k]
                              updated == ReorderRunFrom(
                                  line.runs, JsSlice(indices, run.start, run.end),
                                  0, <<>>, <<>>, {})
                          IN [run EXCEPT !.glyphs = updated.glyphs,
                                         !.positions = updated.positions]]]

(***************************************************************************)
(* Lines handed to reorderLine: a string of at most MaxBidiChars           *)
(* characters in up to three runs laid out with the ligature font, each    *)
(* run with a bidi level, the line left-to-right or right-to-left.         *)
(***************************************************************************)
MaxBidiChars == 4

BidiLevels == 0..2

\* run k of the line: laid out, every position an object of its own
BidiRun(string, start, end, k, bidiLevel, direction) ==
    LET run == LayoutRun(string,
                   [start |-> start, end |-> end,
                    attributes |-> [font |-> <<"liga">>, scale |-> 1, color |-> k,
                                    bidiLevel |-> bidiLevel, direction |-> direction],
                    glyphs |-> <<>>, glyphIndices |-> <<>>, positions |-> <<>>])
    IN [run EXCEPT !.positions =
            [q \in 1..Len(@) |-> [xAdvance |-> @[q], at |-> <<k, q>>]]]

ReorderInit ==
    /\ \E string \in SeqsUpTo(Chars, MaxBidiChars) \ {<<>>} :
       \E ends \in RunEnds(Len(string)) :
       \E bidiLevels \in [1..3 -> BidiLevels] :
       \E direction \in {"ltr", "rtl"} :
          asString = [string |-> string,
                      runs |-> [k \in 1..Len(ends) |->
                                   BidiRun(string, IF k = 1 THEN 0 ELSE ends[k - 1],
                                           ends[k], k, bidiLevels[k], direction)]]
    /\ asCut = <<>>
    /\ asParts = <<>>
    /\ pc = "reorderLine"
    /\ BreakIdle /\ SplitIdle /\ JustIdle /\ FlattenIdle /\ RectIdle /\ PageIdle

\* reorderLine(line)
ReorderLineCall ==
    /\ pc = "reorderLine"
    /\ asParts' = ReorderLine(asString)
    /\ pc' = "reordered"
    /\ UNCHANGED <<asString, asCut>>
    /\ UNCHANGED notStringVars

ReorderNext == ReorderLineCall

SpecReorder == ReorderInit /\ [][ReorderNext]_vars

(***************************************************************************)
(* Properties of reorderLine                                               *)
(***************************************************************************)
\* the position objects of the runs, in order
PositionsOf(runs) ==
    Flat([k \in 1..Len(runs) |->
             [q \in 1..Len(runs[k].positions) |-> runs[k].positions[q].at]])

\* every position object of the line is in the runs exactly once
EachOnce(line, runs) ==
    LET before == PositionsOf(line.runs)
        after == PositionsOf(runs)
    IN /\ Len(after) = Len(before)
       /\ {after[q] : q \in 1..Len(after)} = {before[q] : q \in 1..Len(before)}
       /\ \A q \in 1..Len(runs) : Len(runs[q].glyphs) = Len(runs[q].positions)

\* the line has a ligature glyph
HasLigature(line) ==
    \E k \in 1..Len(line.runs) : \E q \in 1..Len(line.runs[k].glyphs) :
        IsLigature(line.runs[k].glyphs[q])

\* C18: the reordered runs hold every glyph occurrence of the line exactly
\* once: a ligature once, not once per character, and none missing, also
\* when one ligature glyph occurs more than once in a run.
C18_EveryGlyphOnce == pc = "reordered" => EachOnce(asString, asParts.runs)

\* the same for lines in which no run holds a ligature
C18_EveryGlyphOnceWithoutLigature ==
    pc = "reordered" /\ ~HasLigature(asString) => EachOnce(asString, asParts.runs)


(***************************************************************************)
(* The typesetter (textkit.js 81-121, 488-519, 577-591, 668-779).  The     *)
(* container has no excludeRects, so generateLineRects gives the one rect  *)
(* of the container.  A paragraph is given as the lines the linebreaker    *)
(* makes of it; every line is one run of the ligature font with the        *)
(* lineHeight 1.                                                           *)
(* Its lines have no indent.                                               *)
(* maxLines is <<n>>, or <<>> for a container without maxLines.            *)
(***************************************************************************)
ELLIPSIS_UNICODE == "."

\* lines 92-99: <<a, b>>
Partition(rect, height) ==
    <<[rect EXCEPT !.height = height],
      [rect EXCEPT !.y = @ + height, !.height = @ - height]>>

\* lines 108-111
Crop(height, rect) == Partition(rect, height)[2]

\* lines 119-121
Height2(paragraph) == SumSeq([k \in 1..Len(paragraph) |-> paragraph[k].box.height])

\* lines 577-591: height of a line, its runs having a lineHeight
HeightOf(attributedString) ==
    LET hs == {0} \cup {attributedString.runs[k].attributes.lineHeight :
                           k \in 1..Len(attributedString.runs)}
    IN CHOOSE h \in hs : \A g \in hs : g <= h

\* lines 682-692: the line in its box
NewLine(line, rect, lineIndent, y, height) ==
    [string |-> line.string, runs |-> line.runs,
     box |-> [x |-> rect.x + lineIndent, y |-> y,
              width |-> rect.width - lineIndent, height |-> height]]

RECURSIVE LayoutLinesFrom(_, _, _, _, _, _)
\* lines 671-691 from line i + 1 on, rects being what is left of the list
\* and rect the one in use
LayoutLinesFrom(rects, rect, brokenLines, i, currentY, indent) ==
    IF i >= Len(brokenLines) THEN <<>>
    ELSE LET line == brokenLines[i + 1]
             lineIndent == IF i = 0 THEN indent ELSE 0
             style == line.runs[1].attributes
             height == Max(HeightOf(line), style.lineHeight)
         IN IF currentY + height > rect.y + rect.height /\ Len(rects) > 0
            THEN <<NewLine(line, rects[1], lineIndent, rects[1].y, height)>>
                 \o LayoutLinesFrom(Tail(rects), rects[1], brokenLines, i + 1,
                                    rects[1].y + height, indent)
            ELSE <<NewLine(line, rect, lineIndent, currentY, height)>>
                 \o LayoutLinesFrom(rects, rect, brokenLines, i + 1,
                                    currentY + height, indent)

\* lines 668-692
LayoutLines(rects, brokenLines, indent) ==
    LayoutLinesFrom(Tail(rects), rects[1], brokenLines, 0, rects[1].y, indent)

\* the lines engines.linebreaker gives for the paragraph
BrokenLines(paragraph) ==
    [k \in 1..Len(paragraph) |->
        GenerateGlyphs(FromFragments(
            <<[string |-> paragraph[k],
               attributes |-> [font |-> <<"liga">>, scale |-> 1, color |-> 0,
                               lineHeight |-> 1]]>>))]

\* lines 699-714, generateLineRects giving the rect of the container
Layout(container, paragraph) == LayoutLines(<<container>>, BrokenLines(paragraph), 0)

RECURSIVE SliceAtHeightFrom(_, _, _, _)
\* lines 723-737 from line i + 1 on
SliceAtHeightFrom(height, paragraph, i, counter) ==
    IF i >= Len(paragraph) THEN <<>>
    ELSE IF counter + paragraph[i + 1].box.height < height
    THEN <<paragraph[i + 1]>>
            \o SliceAtHeightFrom(height, paragraph, i + 1,
                                 counter + paragraph[i + 1].box.height)
    ELSE <<>>

\* lines 723-737
SliceAtHeight(height, paragraph) == SliceAtHeightFrom(height, paragraph, 0, 0)

\* lines 508-519; the font encodes nothing, glyphForCodePoint is the glyph
\* the font lays out for the code point
Truncate(paragraph) ==
    LET runs == IF paragraph = <<>> THEN <<>> ELSE paragraph[Len(paragraph)].runs
        font == IF runs = <<>> THEN <<>> ELSE GetFont(runs[Len(runs)])
    IN IF font # <<>>
       THEN LET index == Len(paragraph) - 1
                glyph == FontLayout(<<ELLIPSIS_UNICODE>>)[1]
                lastBlock == AppendString([isNumber |-> FALSE, glyph |-> glyph],
                                          Trim(paragraph[index + 1]))
            IN [paragraph EXCEPT ![index + 1] = lastBlock]
       ELSE paragraph

RECURSIVE TypesetterFrom(_, _, _, _, _, _)
\* the while loop of lines 761-777, nextParagraph being paragraphs[k]
TypesetterFrom(container, paragraphs, k, linesCount, paragraphRect, result) ==
    IF ~(linesCount > 0 /\ k <= Len(paragraphs)) THEN result
    ELSE LET paragraph == Layout(paragraphRect, paragraphs[k])
             slicedBlock == JsSlice(paragraph, 0, linesCount)
             linesHeight == Height2(slicedBlock)
             shouldTruncate == /\ container.truncateMode = "ellipsis"
                               /\ Len(paragraph) # Len(slicedBlock)
         IN IF paragraphRect.height >= linesHeight
            THEN TypesetterFrom(container, paragraphs, k + 1,
                     linesCount - Len(slicedBlock), Crop(linesHeight, paragraphRect),
                     Append(result, IF shouldTruncate THEN Truncate(slicedBlock)
                                    ELSE slicedBlock))
            ELSE Append(result,
                        Truncate(SliceAtHeight(paragraphRect.height, slicedBlock)))

\* lines 747-779
Typesetter(container, attributedStrings) ==
    LET maxLines == IF container.maxLines = <<>> THEN JsInfinity ELSE container.maxLines[1]
    IN TypesetterFrom(container, attributedStrings, 1, maxLines, container, <<>>)

(***************************************************************************)
(* Calls of the typesetter: at most MaxParagraphs paragraphs of at most    *)
(* MaxParagraphLines lines each, in a container of a height up to          *)
(* MaxContainerHeight with a maxLines up to MaxMaxLines or none.           *)
(***************************************************************************)
MaxParagraphs == 2

MaxParagraphLines == 3

MaxContainerHeight == 4

MaxMaxLines == 3

LineStrings == {<<"x">>, <<"x", " ">>}

TypesetParagraphs ==
    SeqsUpTo(SeqsUpTo(LineStrings, MaxParagraphLines) \ {<<>>}, MaxParagraphs)

Containers ==
    [x : {0}, y : {0}, width : {10}, height : 1..MaxContainerHeight,
     maxLines : {<<>>} \cup {<<n>> : n \in 1..MaxMaxLines},
     truncateMode : {"ellipsis", "none"}]

TypesetInit ==
    /\ \E container \in Containers : \E paragraphs \in TypesetParagraphs :
          asString = [container |-> container, attributedStrings |-> paragraphs]
    /\ asCut = <<>>
    /\ asParts = <<>>
    /\ pc = "typesetter"
    /\ BreakIdle /\ SplitIdle /\ JustIdle /\ FlattenIdle /\ RectIdle /\ PageIdle

\* typesetter(engines, options, container)(attributedStrings)
TypesetterCall ==
    /\ pc = "typesetter"
    /\ asParts' = Typesetter(asString.container, asString.attributedStrings)
    /\ pc' = "typeset"
    /\ UNCHANGED <<asString, asCut>>
    /\ UNCHANGED notStringVars

TypesetNext == TypesetterCall

SpecTypeset == TypesetInit /\ [][TypesetNext]_vars

(***************************************************************************)
(* Properties of the typesetter                                            *)
(***************************************************************************)
\* the number of lines of the first k paragraphs
LinesUpTo(paragraphs, k) == SumSeq([q \in 1..k |-> Len(paragraphs[q])])

\* maxLines leaves a line out, and the height of the container does not:
\* all the lines, each of the height 1, fit the container
CutByMaxLines ==
    /\ asString.container.maxLines # <<>>
    /\ LinesUpTo(asString.attributedStrings, Len(asString.attributedStrings))
          > asString.container.maxLines[1]
    /\ asString.container.height
          >= LinesUpTo(asString.attributedStrings, Len(asString.attributedStrings))

\* the line budget ends inside a paragraph, after none of them
CutInsideParagraph ==
    \A k \in 1..Len(asString.attributedStrings) :
        LinesUpTo(asString.attributedStrings, k) # asString.container.maxLines[1]

\* the last line of the last block is trimmed and ends with the ellipsis
LastLineTruncated(result) ==
    /\ result # <<>>
    /\ result[Len(result)] # <<>>
    /\ LET block == result[Len(result)]
           line == block[Len(block)]
           n == Len(line.string)
       IN /\ n >= 1
          /\ line.string[n] = ELLIPSIS_UNICODE
          /\ n >= 2 => line.string[1] # " " /\ line.string[n - 1] # " "
          /\ line.runs # <<>>
          /\ LET run == line.runs[Len(line.runs)] IN
             /\ run.glyphs # <<>>
             /\ run.glyphs[Len(run.glyphs)].codePoints = <<ELLIPSIS_UNICODE>>
             /\ run.end = n

\* C19: when maxLines leaves a line out and truncateMode is 'ellipsis', the
\* last line the typesetter emits is trimmed and ends with an ellipsis glyph,
\* also when the budget ends with a paragraph and more paragraphs follow.
C19_EllipsisWhenCutOff ==
    pc = "typeset" /\ asString.container.truncateMode = "ellipsis" /\ CutByMaxLines
        => LastLineTruncated(asParts)

\* the same for a line budget that ends inside a paragraph
C19_EllipsisWhenCutInsideParagraph ==
    pc = "typeset" /\ asString.container.truncateMode = "ellipsis"
                   /\ CutByMaxLines /\ CutInsideParagraph
        => LastLineTruncated(asParts)


(***************************************************************************)
(* Properties of the factors of a justified line                           *)
(***************************************************************************)
\* the glyphs of all runs of the line in order
JGlyphs == Flat([k \in 1..Len(jLine.runs) |-> jLine.runs[k].glyphs])

\* glyph k is white space with nothing but white space before it
LeadingWhiteSpace(k) == \A m \in 1..k : IsWhiteSpace(JGlyphs[m])

\* glyph k is white space with nothing but white space after it
TrailingWhiteSpace(k) == \A m \in k..Len(JGlyphs) : IsWhiteSpace(JGlyphs[m])

\* the first factor has no weight before and the last none after
EdgesWeightless == JFactors[1].before = 0 /\ JFactors[Len(JFactors)].after = 0

\* C20: in the factors of a justified line the first glyph's before and the
\* last glyph's after are 0, and every white space glyph at the start or at
\* the end of the line has before = 0 and after = 0.
C20_EdgesAndOuterWhiteSpaceWeightless ==
    pc = "justified" /\ JGap # 0 =>
        /\ EdgesWeightless
        /\ \A k \in 1..Len(JGlyphs) :
              LeadingWhiteSpace(k) \/ TrailingWhiteSpace(k)
                 => JFactors[k].before = 0 /\ JFactors[k].after = 0

\* the half about the two edges alone
C20_EdgesWeightless == pc = "justified" /\ JGap # 0 => EdgesWeightless


(***************************************************************************)
(* Properties of splitText: the lines kept on the current page             *)
(***************************************************************************)
\* lineIndexAtHeight(node, height - top) for the text handed to splitText
FittingLines == LineIndexAtHeight(pageChildren[1], wrapArea - pageChildren[1].box.top)

\* the current fragment holds no more lines than fit, and is no higher than
\* the room from the top of the node to the height
KeepsWhatFits ==
    /\ Len(currentChilds[1].lines) <= FittingLines
    /\ wrapArea >= pageChildren[1].box.top
          => currentChilds[1].box.height <= wrapArea - pageChildren[1].box.top

\* C27: the break index of getLineBreak is at most
\* lineIndexAtHeight(node, height - top), so the lines splitText keeps on
\* the current page are never higher than the available height.
C27_CurrentLinesFit == pc = "textSplit" => KeepsWhatFits

\* the same for a text with at least as many lines as its orphan count
C27_CurrentLinesFitUnlessFewerThanOrphans ==
    pc = "textSplit" /\ Len(pageChildren[1].lines) >= OrphansOf(pageChildren[1])
        => KeepsWhatFits


(***************************************************************************)
(* Properties of the typesetter: containers without truncateMode           *)
(***************************************************************************)
\* every emitted line has the string of the line it was laid out from
LinesUnaltered(result) ==
    \A k \in 1..Len(result) : \A q \in 1..Len(result[k]) :
        result[k][q].string = asString.attributedStrings[k][q]

\* some emitted line ends with the ellipsis
SomeEllipsis(result) ==
    \E k \in 1..Len(result) : \E q \in 1..Len(result[k]) :
        /\ result[k][q].string # <<>>
        /\ result[k][q].string[Len(result[k][q].string)] = ELLIPSIS_UNICODE

\* C28: for a container without truncateMode the typesetter appends no
\* ellipsis and truncate alters no emitted line, also when the lines of a
\* paragraph are higher than the height the container has left.
C28_NoEllipsisWithoutTruncateMode ==
    pc = "typeset" /\ asString.container.truncateMode = "none"
        => LinesUnaltered(asParts) /\ ~SomeEllipsis(asParts)

\* the same when all lines, each of the height 1, fit the container
C28_NoEllipsisWhenLinesFit ==
    pc = "typeset" /\ asString.container.truncateMode = "none"
        /\ asString.container.height
              >= LinesUpTo(asString.attributedStrings, Len(asString.attributedStrings))
        => LinesUnaltered(asParts) /\ ~SomeEllipsis(asParts)


(***************************************************************************)
(* Properties of getNodes: where the hyphenation penalties are             *)
(***************************************************************************)
\* no penalty node is directly followed by a glue node
NoPenaltyBeforeGlue ==
    \A k \in 1..(Len(nodes) - 1) :
        nodes[k].type = "penalty" => nodes[k + 1].type # "glue"

\* no line ends with an inserted hyphen where the paragraph goes on with a
\* space
NoHyphenBeforeSpace ==
    \A i \in 1..Len(LineBreaks) :
        IsHyphenation(LineBreaks[i])
            => LET end == nodes[LineBreaks[i]].end
               IN end < Len(Flat(syllables)) => Flat(syllables)[end + 1] # " "

\* C29: getNodes emits no hyphenation penalty directly before a white space
\* syllable, however many spaces follow the word, so no line ends with a
\* hyphen inserted after a complete word.
C29_PenaltyInsideWordsOnly ==
    /\ nodes # <<>> => NoPenaltyBeforeGlue
    /\ pc = "done" => NoHyphenBeforeSpace

\* the same for paragraphs whose white space syllables are single spaces
C29_PenaltyInsideWordsOnlyForSingleSpaces ==
    (\A k \in 1..Len(syllables) : syllables[k] # <<" ", " ">>)
        => /\ nodes # <<>> => NoPenaltyBeforeGlue
           /\ pc = "done" => NoHyphenBeforeSpace

\* a line ends with a hyphen inserted before two spaces
C29_HyphenAfterWord == pc = "done" /\ ~NoHyphenBeforeSpace


(***************************************************************************)
(* Font substitution (textkit.js 2775-2846).  A font is a record: glyphs   *)
(* is the set of code points hasGlyphForCodePoint answers true for.  A     *)
(* character is its code point.  null is <<>>, a font f is <<f>> where it  *)
(* may be null.  fontSize is 0 for a run without it.  A scale is the       *)
(* quotient [n, d].                                                        *)
(***************************************************************************)
IGNORED_CODE_POINTS == {173}

\* run.attributes.fontSize || 12
GetFontSize(run) == IF run.attributes.fontSize = 0 THEN 12 ELSE run.attributes.fontSize

\* mutant: the font of the preceding code point is not asked
PickFontFromFontStackOnly(codePoint, fontStack, lastFont) ==
    LET with == {i \in 1..Len(fontStack) :
                    /\ codePoint \notin IGNORED_CODE_POINTS
                    /\ codePoint \in fontStack[i].glyphs}
    IN IF with # {} THEN fontStack[CHOOSE i \in with : \A k \in with : i <= k]
       ELSE fontStack[Len(fontStack)]

\* lines 2777-2789
PickFontFromFontStack(codePoint, fontStack, lastFont) ==
    LET fontStackWithFallback == fontStack \o lastFont
        with == {i \in 1..Len(fontStackWithFallback) :
                    /\ codePoint \notin IGNORED_CODE_POINTS
                    /\ codePoint \in fontStackWithFallback[i].glyphs}
    IN IF with # {}
       THEN fontStackWithFallback[CHOOSE i \in with : \A k \in with : i <= k]
       ELSE fontStack[Len(fontStack)]

\* lines 2806-2827: one character of a run; st is [lastFont, lastFontSize,
\* lastIndex, index, res]
SubstituteChar(st, run, codePoint) ==
    LET font == PickFontFromFontStack(codePoint, run.attributes.font, st.lastFont)
        fontSize == GetFontSize(run)
    IN IF \/ <<font>> # st.lastFont
          \/ fontSize # st.lastFontSize
          \/ font.unitsPerEm # st.lastFont[1].unitsPerEm
       THEN [lastFont |-> <<font>>, lastFontSize |-> fontSize,
             lastIndex |-> st.index, index |-> st.index + 1,
             res |-> IF st.lastFont # <<>>
                     THEN Append(st.res,
                                 [start |-> st.lastIndex, end |-> st.index,
                                  attributes |->
                                     [font |-> st.lastFont,
                                      scale |-> [n |-> st.lastFontSize,
                                                 d |-> st.lastFont[1].unitsPerEm]]])
                     ELSE st.res]
       ELSE [st EXCEPT !.index = @ + 1]

RECURSIVE SubstituteChars(_, _, _, _)
\* the loop of lines 2805-2828 from the character j of chars
SubstituteChars(st, run, chars, j) ==
    IF j >= Len(chars) THEN st
    ELSE SubstituteChars(SubstituteChar(st, run, chars[j + 1]), run, chars, j + 1)

RECURSIVE SubstituteRuns(_, _, _, _)
\* the loop of lines 2795-2829 from the run i, for a string that is not empty
SubstituteRuns(st, string, runs, i) ==
    IF i >= Len(runs) THEN st
    ELSE SubstituteRuns(
             SubstituteChars(st, runs[i + 1],
                             JsSlice(string, runs[i + 1].start, runs[i + 1].end), 0),
             string, runs, i + 1)

\* lines 2830-2841
LastSubstitute(st, string, runs) ==
    IF st.lastIndex < Len(string)
    THEN Append(st.res,
                [start |-> st.lastIndex, end |-> Len(string),
                 attributes |->
                    [font |-> st.lastFont,
                     scale |-> [n |-> GetFontSize(runs[Len(runs)]),
                                d |-> st.lastFont[1].unitsPerEm]]])
    ELSE st.res

\* lines 2790-2843
FontSubstitution(attributedString) ==
    LET string == attributedString.string
        runs == attributedString.runs
    IN IF string = <<>>
       THEN [string |-> string,
             runs |-> IF runs = <<>> THEN <<>>
                      ELSE <<[start |-> 0, end |-> 0,
                              attributes |-> [font |-> runs[1].attributes.font]]>>]
       ELSE [string |-> string,
             runs |-> LastSubstitute(
                          SubstituteRuns([lastFont |-> <<>>, lastFontSize |-> 0,
                                          lastIndex |-> 0, index |-> 0, res |-> <<>>],
                                         string, runs, 0),
                          string, runs)]

(***************************************************************************)
(* Strings handed to fontSubstitution: at most MaxFontChars code points    *)
(* in one or two runs, each with a font stack of one or two fonts.         *)
(***************************************************************************)
MaxFontChars == 3

FontCodePoints == {97, 98, 173}

Fonts ==
    {[name |-> "A", glyphs |-> {97, 173}, unitsPerEm |-> 1000],
     [name |-> "B", glyphs |-> {98}, unitsPerEm |-> 1000],
     [name |-> "C", glyphs |-> {}, unitsPerEm |-> 2048]}

FontStacks == SeqsUpTo(Fonts, 2) \ {<<>>}

FontInit ==
    /\ \E string \in SeqsUpTo(FontCodePoints, MaxFontChars) :
       \E cut \in 0..Len(string) :
       \E stacks \in FontStacks \X FontStacks :
       \E size \in {0, 10} :
          asString =
             [string |-> string,
              runs |-> SelectSeq(
                  <<[start |-> 0, end |-> cut,
                     attributes |-> [font |-> stacks[1], fontSize |-> 0]],
                    [start |-> cut, end |-> Len(string),
                     attributes |-> [font |-> stacks[2], fontSize |-> size]]>>,
                  LAMBDA run : run.start < run.end \/ string = <<>>)]
    /\ asCut = <<>>
    /\ asParts = <<>>
    /\ pc = "fontSubstitution"
    /\ BreakIdle /\ SplitIdle /\ JustIdle /\ FlattenIdle /\ RectIdle /\ PageIdle

\* fontSubstitution()(attributedString)
FontSubstitutionCall ==
    /\ pc = "fontSubstitution"
    /\ asParts' = FontSubstitution(asString)
    /\ pc' = "substituted"
    /\ UNCHANGED <<asString, asCut>>
    /\ UNCHANGED notStringVars

FontNext == FontSubstitutionCall

SpecFonts == FontInit /\ [][FontNext]_vars

(***************************************************************************)
(* Properties of fontSubstitution                                          *)
(***************************************************************************)
\* the run of runs that holds the offset p
RunOver(runs, p) == runs[CHOOSE k \in 1..Len(runs) : runs[k].start <= p /\ p < runs[k].end]

\* the font the result gives the code point at p
ChosenFont(p) == RunOver(asParts.runs, p).attributes.font[1]

\* the font stack of the run the code point at p is in
StackAt(p) == RunOver(asString.runs, p).attributes.font

\* the font reports a glyph that fontSubstitution asks for
Reports(font, codePoint) ==
    codePoint \notin IGNORED_CODE_POINTS /\ codePoint \in font.glyphs

\* the fonts of the stack at p that report a glyph for the code point at p
Reporting(p) == {i \in 1..Len(StackAt(p)) : Reports(StackAt(p)[i], asString.string[p + 1])}

\* the first font of the stack that reports a glyph is chosen
FirstReportingChosen(p) ==
    Reporting(p) # {}
        => ChosenFont(p) = StackAt(p)[CHOOSE i \in Reporting(p) :
                                         \A k \in Reporting(p) : i <= k]

\* every offset of the string is in exactly one run of the result
ResultTiles ==
    \A p \in 0..(Len(asString.string) - 1) :
        Cardinality({k \in 1..Len(asParts.runs) :
                        asParts.runs[k].start <= p /\ p < asParts.runs[k].end}) = 1

\* C23 as stated: the first font of the stack that reports a glyph for the
\* code point is chosen, and when no font of the stack reports one, the font
\* chosen for the preceding code point.
C23_FallsBackToPrecedingFont ==
    pc = "substituted" =>
        /\ ResultTiles
        /\ \A p \in 0..(Len(asString.string) - 1) :
              /\ FirstReportingChosen(p)
              /\ Reporting(p) = {} /\ p > 0 => ChosenFont(p) = ChosenFont(p - 1)

\* C23: the first font of the stack that reports a glyph for the code point
\* is chosen; when none does, the font of the preceding code point if that
\* font reports a glyph for it, and else the last font of the stack.  No font
\* is asked for the ignored code point 173.
C23_FallsBackToPrecedingFontOrLastOfStack ==
    pc = "substituted" =>
        /\ ResultTiles
        /\ \A p \in 0..(Len(asString.string) - 1) :
              /\ FirstReportingChosen(p)
              /\ Reporting(p) = {} =>
                    IF p > 0 /\ Reports(ChosenFont(p - 1), asString.string[p + 1])
                    THEN ChosenFont(p) = ChosenFont(p - 1)
                    ELSE ChosenFont(p) = StackAt(p)[Len(StackAt(p))]

\* a code point no font of its stack reports takes the font of the code
\* point before it, which is of another stack, and one takes the last font
\* of its stack, which is not the font before it
C23_Witness ==
    /\ pc = "substituted"
    /\ \E p \in 1..(Len(asString.string) - 1) :
          /\ Reporting(p) = {}
          /\ ChosenFont(p) = ChosenFont(p - 1)
          /\ \A i \in 1..Len(StackAt(p)) : StackAt(p)[i] # ChosenFont(p)
    /\ \E p \in 1..(Len(asString.string) - 1) :
          /\ Reporting(p) = {}
          /\ ChosenFont(p) # ChosenFont(p - 1)


(***************************************************************************)
(* layoutParagraph (textkit.js 600-714): generateLineRects as a state      *)
(* machine, one pass of its while loop a step, then the rest of            *)
(* layoutParagraph.  A container without excludeRects has the list <<>>,   *)
(* for which the code gives the same rects.  The paragraph is one run      *)
(* with the attributes lineHeight (also when 0) and indent; the            *)
(* linebreaker gives it a number of lines whatever the widths are.         *)
(***************************************************************************)
\* lines 600-606
Intersects(a, b) ==
    /\ Min(a.x + a.width, b.x + b.width) >= Max(a.x, b.x)
    /\ Min(a.y + a.height, b.y + b.height) >= Max(a.y, b.y)

HasWidth(r) == r.width > 0

\* lines 608-618
GetLineFragment(lineRect, excludeRect) ==
    IF ~Intersects(excludeRect, lineRect) THEN <<lineRect>>
    ELSE LET eStart == excludeRect.x
             eEnd == excludeRect.x + excludeRect.width
             lStart == lineRect.x
             lEnd == lineRect.x + lineRect.width
         IN SelectSeq(<<[lineRect EXCEPT !.width = eStart - lStart],
                        [lineRect EXCEPT !.x = eEnd, !.width = lEnd - eEnd]>>,
                      HasWidth)

RECURSIVE GetLineFragmentsFrom(_, _, _)
\* the loop of lines 621-627 from excludeRects[i]
GetLineFragmentsFrom(fragments, excludeRects, i) ==
    IF i >= Len(excludeRects) THEN fragments
    ELSE GetLineFragmentsFrom(
             Flat([k \in 1..Len(fragments) |->
                      GetLineFragment(fragments[k], excludeRects[i + 1])]),
             excludeRects, i + 1)

\* lines 619-629
GetLineFragments(rect, excludeRects) == GetLineFragmentsFrom(<<rect>>, excludeRects, 0)

\* Math.max(...excludeRects.map((r) => r.y + r.height))
MaxY(excludeRects) ==
    LET ends == {excludeRects[k].y + excludeRects[k].height : k \in 1..Len(excludeRects)}
    IN IF ends = {} THEN MinusInfinity ELSE CHOOSE e \in ends : \A f \in ends : f <= e

\* const { excludeRects, ...rect } = container
RectOf(container) ==
    [x |-> container.x, y |-> container.y, width |-> container.width,
     height |-> container.height]

\* the paragraph as the attributed string of its one run
ParagraphString(paragraph) ==
    [string |-> <<"x">>,
     runs |-> <<[start |-> 0, end |-> 1,
                 attributes |-> [lineHeight |-> paragraph.height,
                                 indent |-> paragraph.indent]]>>]

\* lineLengths as computeCost reads it for the line i (lines 1918-1926,
\* currentLine being i + 1)
LineLength(lineLengths, i) ==
    IF i + 1 < Len(lineLengths) THEN lineLengths[i + 1]
    ELSE lineLengths[Len(lineLengths)]

MaxLineRects == 8

MaxRectLines == 3

ExcludeRects ==
    {[x |-> 6, y |-> 0, width |-> 4, height |-> 2],
     [x |-> 4, y |-> 1, width |-> 2, height |-> 1],
     [x |-> 0, y |-> 2, width |-> 10, height |-> 1]}

RectContainers ==
    [x : {0}, y : {0}, width : {10}, height : {2, 4},
     excludeRects : SeqsUpTo(ExcludeRects, 2)]

RectParagraphs == [height : 0..2, indent : {0, 3}, lines : 1..MaxRectLines]

RectInit ==
    /\ lrContainer \in RectContainers
    /\ lrParagraph \in RectParagraphs
    /\ currentRect = RectOf(lrContainer)
    /\ lineRects = <<>>
    /\ lrWidths = <<>>
    /\ lrLines = <<>>
    /\ pc = "generateLineRects"
    /\ BreakIdle /\ SplitIdle /\ JustIdle /\ StringIdle /\ FlattenIdle /\ PageIdle

\* the height generateLineRects is called with, lines 706-708
ParagraphHeight == HeightOf(ParagraphString(lrParagraph))

\* while (currentRect.y < maxY)
InLoop ==
    /\ lrContainer.excludeRects # <<>>
    /\ currentRect.y < MaxY(lrContainer.excludeRects)

\* one pass of the while loop of generateLineRects, lines 637-642
PartitionPass ==
    /\ pc = "generateLineRects"
    /\ InLoop
    /\ Len(lineRects) < MaxLineRects
    /\ LET halves == Partition(currentRect, ParagraphHeight) IN
          /\ lineRects' = lineRects \o GetLineFragments(halves[1], lrContainer.excludeRects)
          /\ currentRect' = halves[2]
    /\ UNCHANGED <<lrContainer, lrParagraph, lrWidths, lrLines, pc>>
    /\ UNCHANGED notRectVars

\* the widths and the boxes of layoutParagraph for the rects
Boxes(rects, paragraph) ==
    LET placed == LayoutLines(rects,
                              [i \in 1..paragraph.lines |-> ParagraphString(paragraph)],
                              paragraph.indent)
    IN [i \in 1..Len(placed) |-> placed[i].box]

\* the return of generateLineRects and the rest of layoutParagraph,
\* lines 643 and 709-712
LayoutParagraphReturn ==
    /\ pc = "generateLineRects"
    /\ ~InLoop
    /\ lrWidths' = LET rects == lineRects \o <<currentRect>> IN
                   <<rects[1].width - lrParagraph.indent>>
                      \o [k \in 1..Len(rects) |-> rects[k].width]
    /\ lrLines' = Boxes(lineRects \o <<currentRect>>, lrParagraph)
    /\ pc' = "laidOut"
    /\ UNCHANGED <<lrContainer, lrParagraph, currentRect, lineRects>>
    /\ UNCHANGED notRectVars

RectNext == PartitionPass \/ LayoutParagraphReturn

SpecRects == RectInit /\ [][RectNext]_vars

(***************************************************************************)
(* Properties of layoutParagraph                                           *)
(***************************************************************************)
\* every line is as wide as the length the line breaker has for it
WidthsAgree ==
    \A i \in 1..Len(lrLines) : LineLength(lrWidths, i - 1) = lrLines[i].width

\* C25: the width the line breaker uses for the line i is the width of the
\* box layoutLines gives the line i, the indent taken off the first line,
\* for containers with and without excludeRects.
C25_LinesBrokenAgainstTheirBox == pc = "laidOut" => WidthsAgree

\* the same for containers without excludeRects
C25_LinesBrokenAgainstTheirBoxWithoutExcludeRects ==
    pc = "laidOut" /\ lrContainer.excludeRects = <<>> => WidthsAgree

\* C26: generateLineRects ends for every line height from 0 on: each pass
\* of its loop leaves a rect that starts lower than the one before.
C26_EveryPassGoesDown ==
    [][pc' = "generateLineRects" => currentRect'.y > currentRect.y]_vars

\* the same for the line heights above 0
C26_EveryPassGoesDownForHeightAboveZero ==
    [][pc' = "generateLineRects" /\ ParagraphHeight > 0
          => currentRect'.y > currentRect.y]_vars


(***************************************************************************)
(* resolvePagination (src/unnamed/part_001 2641-2750)                      *)
(*                                                                         *)
(* A page is a node with an id (its place in root.children), props.wrap,   *)
(* style.height, box.height and children; it has no padding and no         *)
(* bookmark.  A dynamic node has the key render in its props.  What        *)
(* render returns is a text instance that holds the props of the call.     *)
(* The props of a call are a record of the four keys, each <<>> when the   *)
(* key is absent and <<n>> otherwise.  lines: null is NullLines.           *)
(*                                                                         *)
(* relayoutPage runs Yoga, which is not part of the sources.  It is the    *)
(* deterministic layout of the pages of SpecSplit: the children in flow    *)
(* are stacked from the top, a fixed child keeps its place and takes no    *)
(* room, a node with style.height has that height, a text is as high as    *)
(* its lines (measureText, lines 2200-2218), a view as its children.       *)
(***************************************************************************)
\* lines: null, a list no text layout returns
NullLines == <<0 - 1>>

\* node.props, false for a text instance
HasProps(node) == "props" \in DOMAIN node

\* line 2551
IsDynamic(node) == HasProps(node) /\ "render" \in DOMAIN node.props

\* line 1267: the instance of what render returns for the props
CreateInstances(props) == <<[type |-> "TEXT_INSTANCE", value |-> props]>>

RECURSIVE ShouldResolveDynamicNodes(_)
\* lines 2641-2644
ShouldResolveDynamicNodes(node) ==
    \/ IsDynamic(node)
    \/ \E i \in 1..Len(node.children) :
          HasProps(node.children[i]) /\ ShouldResolveDynamicNodes(node.children[i])

\* lines 2658-2664: the node returned for the resolved children
ResolveDynamicNode(props, node, kids) ==
    [node EXCEPT !.children = kids,
                 !.box.height = IF IsDynamic(node) /\ node.type = "TEXT" THEN 0 ELSE @,
                 !.lines = IF IsDynamic(node) THEN NullLines ELSE @]

RECURSIVE ResolveDynamicNodes(_, _)
\* lines 2645-2665
ResolveDynamicNodes(props, node) ==
    IF ~HasProps(node) THEN node
    ELSE IF IsDynamic(node)
    THEN ResolveDynamicNode(props, node, CreateInstances(props))
    ELSE ResolveDynamicNode(props, node,
             [i \in 1..Len(node.children) |->
                 ResolveDynamicNodes(props, node.children[i])])

\* a page has no lines; lines 2645-2665 for the page itself
ResolveDynamicChildren(props, page) ==
    [page EXCEPT !.children =
        [i \in 1..Len(page.children) |-> ResolveDynamicNodes(props, page.children[i])]]

RECURSIVE DynamicNodes(_)
\* the dynamic nodes of a list of nodes, in the order of the calls of render
DynamicNodes(ns) ==
    IF ns = <<>> THEN <<>>
    ELSE (IF ~HasProps(Head(ns)) THEN <<>>
          ELSE IF IsDynamic(Head(ns)) THEN <<Head(ns)>>
          ELSE DynamicNodes(Head(ns).children))
         \o DynamicNodes(Tail(ns))

\* layoutText for the text render returned: one line of height 2
LayoutText(node) == <<2>>

\* linesHeight, or the style height
TextHeight(node, lns) ==
    IF HasFixedHeight(node) THEN node.style.height[1] ELSE SumSeq(lns)

\* the top of a child in the layout: a fixed child keeps its place
TopOf(node, top) == IF IsFixed(node) THEN node.box.top ELSE top

\* the text at top with its lines, lines 2200-2204
PlaceText(node, top, lns) ==
    [node EXCEPT !.lines = lns,
                 !.box = [@ EXCEPT !.top = TopOf(node, top),
                                   !.height = TextHeight(node, lns)]]

RECURSIVE FlowHeight(_)
\* the height the children in flow take
FlowHeight(ns) ==
    IF ns = <<>> THEN 0
    ELSE (IF IsFixed(Head(ns)) THEN 0 ELSE Head(ns).box.height) + FlowHeight(Tail(ns))

\* the node at top with its laid out children
PlaceView(node, top, kids) ==
    [node EXCEPT !.children = kids,
                 !.box = [@ EXCEPT !.top = TopOf(node, top),
                                   !.height = IF HasFixedHeight(node)
                                              THEN node.style.height[1]
                                              ELSE IF kids = <<>> THEN @
                                              ELSE FlowHeight(kids)]]

RECURSIVE RelayoutNode(_, _)
RECURSIVE RelayoutChildren(_, _, _)
\* the layout of a node at top; shouldLayoutText is line 1509
RelayoutNode(node, top) ==
    IF ~HasProps(node) THEN node
    ELSE IF node.type = "TEXT"
    THEN PlaceText(node, top,
                   IF node.lines = NullLines THEN LayoutText(node) ELSE node.lines)
    ELSE PlaceView(node, top, RelayoutChildren(node.children, 1, 0))

\* the layout of the children from child i on, the flow at top
RelayoutChildren(ns, i, top) ==
    IF i > Len(ns) THEN <<>>
    ELSE LET node == RelayoutNode(ns[i], top) IN
         <<node>> \o RelayoutChildren(ns, i + 1,
                                      IF IsFixed(node) THEN top
                                      ELSE top + node.box.height)

\* line 2552
RelayoutPage(page) ==
    [page EXCEPT !.children = RelayoutChildren(page.children, 1, 0),
                 !.box.height = <<page.style.height>>]

\* lines 2666-2672
ResolveDynamicPage(props, page) ==
    IF ShouldResolveDynamicNodes(page)
    THEN RelayoutPage(ResolveDynamicChildren(props, page))
    ELSE page

\* the resolvedPage of the call, lines 2667-2668
ResolvedPageOf(props, page, before) ==
    IF ShouldResolveDynamicNodes(page)
    THEN <<ResolveDynamicChildren(props, page)>>
    ELSE before

\* the props of the calls of render
RenderProps(totalPages, number, subPageNumber, subPageTotalPages) ==
    [totalPages |-> totalPages, pageNumber |-> number,
     subPageNumber |-> subPageNumber, subPageTotalPages |-> subPageTotalPages]

\* line 2676: { pageNumber }
SplitProps(number) == RenderProps(<<>>, <<number>>, <<>>, <<>>)

\* line 2550
AllFixed(ns) == \A i \in 1..Len(ns) : IsFixed(ns[i])

\* lines 1243-1247, for a page without padding
GetWrapArea(page) == page.style.height

\* lines 1249-1253, for a page without padding
GetContentArea(page) == page.style.height

\* lines 2682-2693: the two pages for the split children, <<>> for null
SplitPageOf(page, halves) ==
    << RelayoutPage([page EXCEPT !.box.height = <<page.style.height>>,
                                 !.children = halves[1]]),
       IF Len(halves[2]) = 0 \/ AllFixed(halves[2]) THEN <<>>
       ELSE << RelayoutPage([page EXCEPT !.box.height = <<>>,
                                         !.children = halves[2]]) >> >>

\* lines 2673-2694
SplitPage(page, number) ==
    SplitPageOf(page,
                SplitNodes(GetWrapArea(page), GetContentArea(page),
                           ResolveDynamicPage(SplitProps(number), page).children))

\* mutant: the page numbers start at 0
IndexPropsFromZero(page, index, all) ==
    RenderProps(<<Len(all)>>, <<index>>, <<page.subPageNumber[1] + 1>>,
                page.subPageTotalPages)

\* lines 2696-2702
IndexProps(page, index, all) ==
    RenderProps(<<Len(all)>>, <<index + 1>>, <<page.subPageNumber[1] + 1>>,
                page.subPageTotalPages)

\* lines 2695-2704
ResolvePageIndices(page, index, all) ==
    ResolveDynamicPage(IndexProps(page, index, all), page)

\* lines 2705-2711
AssocSubPageData(subs) ==
    [i \in 1..Len(subs) |->
        [subs[i] EXCEPT !.subPageNumber = <<i - 1>>,
                        !.subPageTotalPages = <<Len(subs)>>]]

\* lines 2712-2714
DissocSubPageData(page) ==
    [page EXCEPT !.subPageNumber = <<>>, !.subPageTotalPages = <<>>]

\* mutant: the first fragment is not counted
NumberOfNextPageSkipsFirst(number, subs) == number + Len(subs) - 1

\* line 2724: pageNumber + pages.length
NumberOfNextPage(number, subs) == number + Len(subs)

\* the calls of render for the page, each with the page fragment it is for
RendersOf(props, page, sub, pass) ==
    LET dynamic == DynamicNodes(page.children) IN
    [i \in 1..Len(dynamic) |->
        [id |-> dynamic[i].id, props |-> props, source |-> page.id, sub |-> sub,
         pass |-> pass]]

(***************************************************************************)
(* Documents: a first page of any children, then pages of two kinds.       *)
(***************************************************************************)
\* props with a render callback
DynamicProps(fixed) ==
    [fixed |-> fixed, wrap |-> TRUE, break |-> FALSE, minPresenceAhead |-> 0,
     orphans |-> 0, widows |-> 0, render |-> TRUE]

PageKinds == {"text3", "text5", "view", "image", "pageno", "dyn"}

\* the child of a kind: pageno is a fixed dynamic text, dyn one in flow; a
\* dynamic text has no lines before its first render
PageChild(kind, id, top) ==
    CASE kind = "pageno" -> Node(id, "TEXT", DynamicProps("true"), 0, 0, <<>>, <<>>, <<>>)
      [] kind = "dyn" -> Node(id, "TEXT", DynamicProps("absent"), top, 0, <<>>, <<>>, <<>>)
      [] OTHER -> Shape(kind, id, top)

RECURSIVE StackPage(_, _, _, _)
\* the children of the page for a list of kinds, the ids from base on
StackPage(kinds, i, top, base) ==
    IF i > Len(kinds) THEN <<>>
    ELSE LET node == PageChild(kinds[i], base + 10 * i, top) IN
         <<node>> \o StackPage(kinds, i + 1,
                               IF IsFixed(node) THEN top ELSE top + node.box.height,
                               base)

\* the page at place id of root.children
Page(id, wrap, h, kinds) ==
    [id |-> id, type |-> "PAGE", props |-> [wrap |-> wrap],
     style |-> [height |-> h], box |-> [height |-> <<h>>],
     children |-> StackPage(kinds, 1, 0, 100 * id),
     subPageNumber |-> <<>>, subPageTotalPages |-> <<>>]

MaxPageChildren == 2

MaxDocPages == 2

MaxSubpages == 4

PaginateHeights == {5, 6}

FirstPages ==
    { Page(1, wrap, h, kinds) :
        wrap \in BOOLEAN, h \in PaginateHeights,
        kinds \in SeqsUpTo(PageKinds, MaxPageChildren) }

\* a later page: a cover that does not wrap, or a chapter that splits in two
LaterPage(kind, id) ==
    IF kind = "cover" THEN Page(id, FALSE, 6, <<"pageno">>)
    ELSE Page(id, TRUE, 6, <<"text5", "pageno">>)

Documents ==
    { <<first>> \o [i \in 1..Len(later) |-> LaterPage(later[i], i + 1)] :
        first \in FirstPages,
        later \in SeqsUpTo({"cover", "chapter"}, MaxDocPages - 1) }

PaginateInit ==
    /\ root \in Documents
    /\ pageIndex = 0
    /\ pageNumber = 1
    /\ pages = <<>>
    /\ subpages = <<>>
    /\ nextPage = <<>>
    /\ renders = <<>>
    /\ resolvedPage = <<>>
    /\ mapped = <<>>
    /\ pc = "paginate"
    /\ BreakIdle /\ SplitIdle /\ JustIdle /\ StringIdle /\ FlattenIdle /\ RectIdle

\* where resolvePagination goes on after the page i of the for loop
AfterPage(i) == IF i + 1 < Len(root) THEN "paginate" ELSE "indices"

\* lines 2741-2747 for a page with props.wrap false (line 2718)
PaginateNoWrap ==
    /\ pc = "paginate"
    /\ root[pageIndex + 1].props.wrap = FALSE
    /\ subpages' = AssocSubPageData(<<root[pageIndex + 1]>>)
    /\ pages' = pages \o AssocSubPageData(<<root[pageIndex + 1]>>)
    /\ pageNumber' = pageNumber + 1
    /\ pageIndex' = pageIndex + 1
    /\ pc' = AfterPage(pageIndex)
    /\ UNCHANGED <<root, nextPage, renders, resolvedPage, mapped>>
    /\ UNCHANGED notPageVars

\* a call of splitPage in paginate and what paginate does with its result,
\* subs the pages paginate has so far
SplitPageCall(page, number, subs, result) ==
    /\ subpages' = Append(subs, result[1])
    /\ nextPage' = result[2]
    /\ renders' = renders \o RendersOf(SplitProps(number), page, Len(subs), "split")
    /\ resolvedPage' = ResolvedPageOf(SplitProps(number), page, resolvedPage)
    /\ pc' = "while"
    /\ UNCHANGED <<root, pageIndex, pageNumber, pages, mapped>>
    /\ UNCHANGED notPageVars

\* lines 2720-2722
PaginateSplit ==
    /\ pc = "paginate"
    /\ root[pageIndex + 1].props.wrap # FALSE
    /\ SplitPageCall(root[pageIndex + 1], pageNumber, <<>>,
                     SplitPage(root[pageIndex + 1], pageNumber))

\* one pass of the while loop, lines 2723-2727
PaginateWhile ==
    /\ pc = "while"
    /\ nextPage # <<>>
    /\ Len(subpages) < MaxSubpages
    /\ SplitPageCall(nextPage[1], NumberOfNextPage(pageNumber, subpages), subpages,
                     SplitPage(nextPage[1], NumberOfNextPage(pageNumber, subpages)))

\* line 2728 and lines 2744-2746
PaginateReturn ==
    /\ pc = "while"
    /\ nextPage = <<>>
    /\ subpages' = AssocSubPageData(subpages)
    /\ pages' = pages \o AssocSubPageData(subpages)
    /\ pageNumber' = pageNumber + Len(subpages)
    /\ pageIndex' = pageIndex + 1
    /\ pc' = AfterPage(pageIndex)
    /\ UNCHANGED <<root, nextPage, renders, resolvedPage, mapped>>
    /\ UNCHANGED notPageVars

\* the callback of pages.map for the next page, line 2748
MapPage ==
    /\ pc = "indices"
    /\ Len(mapped) < Len(pages)
    /\ LET index == Len(mapped)
           page == pages[Len(mapped) + 1]
       IN /\ mapped' = Append(mapped,
                              DissocSubPageData(ResolvePageIndices(page, index, pages)))
          /\ renders' = renders \o RendersOf(IndexProps(page, index, pages), page,
                                             page.subPageNumber[1], "final")
          /\ resolvedPage' = ResolvedPageOf(IndexProps(page, index, pages), page,
                                            resolvedPage)
    /\ UNCHANGED <<root, pageIndex, pageNumber, pages, subpages, nextPage, pc>>
    /\ UNCHANGED notPageVars

\* lines 2748-2749
ResolvePaginationReturn ==
    /\ pc = "indices"
    /\ Len(mapped) = Len(pages)
    /\ pages' = mapped
    /\ pc' = "paginated"
    /\ UNCHANGED <<root, pageIndex, pageNumber, subpages, nextPage, renders,
                   resolvedPage, mapped>>
    /\ UNCHANGED notPageVars

PaginateNext ==
    \/ PaginateNoWrap
    \/ PaginateSplit
    \/ PaginateWhile
    \/ PaginateReturn
    \/ MapPage
    \/ ResolvePaginationReturn

SpecPaginate == PaginateInit /\ [][PaginateNext]_vars


(***************************************************************************)
(* Properties of resolvePagination                                         *)
(***************************************************************************)
\* C24: paginate ends: the chain of the calls of splitPage gets on, no call
\* on a continuation page returns that same page as the next page again,
\* so a child moved whole to the next page is not moved whole for ever.
C24_SplitPageGetsOn ==
    [][pc = "while" /\ pc' = "while" /\ nextPage # <<>> => nextPage' # nextPage]_vars

\* a text that is higher than the page and that getLineBreak keeps whole
UnbreakableText(node, h) ==
    /\ HasProps(node)
    /\ node.type = "TEXT"
    /\ node.box.height > h
    /\ GetLineBreak([node EXCEPT !.box.top = 0], h) = 0

\* the same for the pages where every text higher than the page has a break
C24_SplitPageGetsOnForBreakableTexts ==
    [][pc = "while" /\ pc' = "while" /\ nextPage # <<>>
          /\ (\A i \in 1..Len(nextPage[1].children) :
                 ~UnbreakableText(nextPage[1].children[i], nextPage[1].style.height))
          => nextPage' # nextPage]_vars


\* the ids of the dynamic nodes of a page
DynamicIdsOf(page) ==
    { DynamicNodes(page.children)[i].id : i \in 1..Len(DynamicNodes(page.children)) }

\* the calls of render of the node id for the page with the number
CallsFor(id, number) ==
    { i \in 1..Len(renders) :
        renders[i].id = id /\ renders[i].props.pageNumber = <<number>> }

\* the calls of render of the node id for the page, made by the final pass
FinalCallsFor(id, number) ==
    { i \in CallsFor(id, number) : renders[i].props.totalPages # <<>> }

\* C21: over the whole of resolvePagination, the splitting and the final
\* pass, render is called once for every dynamic node of every final page.
C21_RenderedOncePerPage ==
    pc = "paginated" =>
        \A k \in 1..Len(pages) : \A id \in DynamicIdsOf(pages[k]) :
            Cardinality(CallsFor(id, k)) = 1

\* the final pass alone calls render once for every dynamic node of a page
C21_RenderedOncePerPageByFinalPass ==
    pc = "paginated" =>
        \A k \in 1..Len(pages) : \A id \in DynamicIdsOf(pages[k]) :
            Cardinality(FinalCallsFor(id, k)) = 1

\* a page that went through splitPage has two calls for each dynamic node
C21_RenderedTwice ==
    /\ pc = "paginated"
    /\ \E k \in 1..Len(pages) : \E id \in DynamicIdsOf(pages[k]) :
          Cardinality(CallsFor(id, k)) = 2


\* the pages have all been split: the for loop of resolvePagination is over
AllPagesSplit == pc \in {"indices", "paginated"}

\* the dynamic nodes of the page k of the final pass got the number of the
\* pages and the place of the page
FinalPropsGiven(k) ==
    \A i \in 1..Len(DynamicNodes(mapped[k].children)) :
        LET given == DynamicNodes(mapped[k].children)[i].children[1].value IN
        /\ given.totalPages = <<Len(pages)>>
        /\ given.pageNumber = <<k>>

\* resolveDynamicNodes has left no lines in the dynamic nodes of the page
\* that is then laid out
LinesDiscarded ==
    resolvedPage # <<>> =>
        \A i \in 1..Len(DynamicNodes(resolvedPage[1].children)) :
            DynamicNodes(resolvedPage[1].children)[i].lines = NullLines

\* the final pass gives the page indices and discards the lines
FinalPassResolves ==
    /\ AllPagesSplit => \A k \in 1..Len(mapped) : FinalPropsGiven(k)
    /\ LinesDiscarded

SameNumberInBothPasses ==
    \A i, j \in 1..Len(renders) :
        renders[i].source = renders[j].source /\ renders[i].sub = renders[j].sub
            => renders[i].props.pageNumber = renders[j].props.pageNumber

\* the place in pages of the fragment sub of the source page, while the
\* pages carry their sub page data
PlaceOf(source, sub) ==
    CHOOSE k \in 1..Len(pages) :
        pages[k].id = source /\ pages[k].subPageNumber = <<sub>>

\* a call for a fragment that is in pages has the place of the fragment
NumberIsPlace ==
    pc \in {"paginate", "indices"} =>
        \A i \in 1..Len(renders) :
            renders[i].source <= pageIndex =>
                renders[i].props.pageNumber
                    = <<PlaceOf(renders[i].source, renders[i].sub)>>

\* the fragments of the source page in pages
FragmentsOf(source) == { k \in 1..Len(pages) : pages[k].id = source }

\* the sub page data of the pages, before the final pass takes them off
SubPageDataInRange ==
    pc \in {"paginate", "while", "indices"} =>
        \A k \in 1..Len(pages) :
            /\ 1 <= pages[k].subPageNumber[1] + 1
            /\ pages[k].subPageNumber[1] + 1 <= pages[k].subPageTotalPages[1]
            /\ pages[k].subPageTotalPages[1] = Cardinality(FragmentsOf(pages[k].id))

\* what the final pass gives as subPageNumber and subPageTotalPages
SubPageDataGiven ==
    \A i \in 1..Len(renders) :
        renders[i].pass = "final" =>
            /\ renders[i].props.subPageNumber = <<renders[i].sub + 1>>
            /\ 1 <= renders[i].sub + 1
            /\ renders[i].sub + 1 <= renders[i].props.subPageTotalPages[1]

\* C30: the pageNumber a page's dynamic nodes get when splitPage splits the
\* page off is the pageNumber they get in the final pass, the place of the
\* page in the final list from 1; and every page has
\* 1 <= subPageNumber <= subPageTotalPages, subPageTotalPages being the
\* number of the fragments of its source page.
C30_PageNumbersConsistent ==
    /\ SameNumberInBothPasses
    /\ NumberIsPlace
    /\ SubPageDataInRange
    /\ SubPageDataGiven

\* a second source page that splitPage has split in two, with a dynamic node
\* on its second fragment, after the final pass
C30_Witness ==
    /\ pc = "paginated"
    /\ \E i, j \in 1..Len(renders) :
          /\ renders[i].pass = "split"
          /\ renders[j].pass = "final"
          /\ renders[i].source = 2 /\ renders[j].source = 2
          /\ renders[i].sub = 1 /\ renders[j].sub = 1
          /\ renders[j].props.pageNumber[1] >= 3
          /\ renders[j].props.subPageTotalPages = <<2>>

=============================================================================
